---------------------------- MODULE Spec2Model ----------------------------
(***************************************************************************)
(* Back In Time: the udev rule service helper (qt/serviceHelper.py).       *)
(*                                                                         *)
(* The helper is one D-Bus object served by a single-threaded Qt main      *)
(* loop.  Every method call is dispatched on that loop and runs to its     *)
(* return or exception before the next is dispatched; the PolicyKit query  *)
(* is a blocking proxy call inside the handler.  One handler is therefore  *)
(* one action here.                                                        *)
(*                                                                         *)
(* A text is a sequence of tokens.  Every character of a caller supplied   *)
(* string (command, device id) is one token; every fixed fragment of the   *)
(* rule template is one token that holds no line break.                    *)
(***************************************************************************)
EXTENDS Integers, Sequences, FiniteSets, TLC

VARIABLES
    tmpDict,     \* self.tmpDict: owner -> list of staged rule lines
    files,       \* UDEV_RULES_PATH % user: NoFile or the text of the file
    polkit,      \* self.polkit: None or the proxy of the PolicyKit authority
    last,        \* the call handled last: method, caller, inputs, reply, oracle queries
    authSaved,   \* history: per user the rule list of the latest authorized save
    wr,          \* the write of save in progress (file opened, not yet closed)
    probe,       \* the inputs of one function applied on its own and what it came to:
                 \* a (command, device id) pair and the verdicts of its validation,
                 \* the arguments of rsyncPrefix and what it returned, or the
                 \* generator of splitCommands and what it yielded
    wait,        \* the call whose handler is inside CheckAuthorization, waiting for the reply
    self,        \* tools.Execute: None or the object with its fields
    pc,          \* tools.Execute: where the constructor or run() stands
    thread,      \* the thread that called run()
    handlers,    \* the signal table of the process: signal -> SIG_DFL or the method installed
    child,       \* the child process: its state, what it still writes, its exit code
                 \* (and, as history, what it has written)
    pipe,        \* the stdout pipe of the child: the lines written and not yet read
    delivered,   \* history: the calls of the callback, each with its two arguments
    ret_val,     \* run(): the local ret_val, the value returned
    second       \* a second tools.Execute object of the same process with its child

\* the state of the Execute controller and its child
execVars == <<self, pc, thread, handlers, child, pipe, delivered, ret_val, second>>

vars == <<tmpDict, files, polkit, last, authSaved, wr, probe, wait,
          self, pc, thread, handlers, child, pipe, delivered, ret_val, second>>

---------------------------------------------------------------------------
(* Bounds of the model *)

\* self.max_rules is 100 and self.max_users is 20 in the source; the model
\* keeps the comparisons of _checkLimits and scales the two numbers.
max_rules == 2
max_users == 2
\* how often the oracle may answer ServiceUnknown within one check
MaxRetry == 1
\* the calls the stack of the interpreter holds (sys.getrecursionlimit() is
\* 1000 in CPython)
recursionlimit == 3
\* the elements of the list given to splitCommands at most
MaxCmds == 2
\* the commands of splitCommands that are recorded
MaxYield == 3
\* the lines a child writes at most
MaxLines == 2
\* the lines the pipe of the child holds (64 KiB on Linux)
PipeCap == 1
\* the tokens the buffer of the file writer holds (8192 bytes in CPython)
BufferSize == 40

(* Program constants *)
max_cmd_len == 120

---------------------------------------------------------------------------
(* Texts *)

\* an absent value is the empty tuple, a present value x the tuple <<x>>
None == <<>>
Some(x) == <<x>>
\* a rule file: absent, or present with its text
NoFile == None
File(text) == Some(text)
\* a method returned None, a check raised nothing
Returned == "None"
NL == "\n"

Lower == {"a","b","c","d","e","f","g","h","i","j","k","l","m",
          "n","o","p","q","r","s","t","u","v","w","x","y","z"}
Upper == {"A","B","C","D","E","F","G","H","I","J","K","L","M",
          "N","O","P","Q","R","S","T","U","V","W","X","Y","Z"}
Digit == {"0","1","2","3","4","5","6","7","8","9"}

\* re: [a-zA-Z0-9-/\.>& ]
CmdChars == Lower \cup Upper \cup Digit \cup {"-", "/", ".", ">", "&", " "}
\* re: [a-zA-Z0-9-]
UuidChars == Lower \cup Upper \cup Digit \cup {"-"}

\* re.findall(r'[^...]', s): the characters of s outside the class
findall(allowed, s) == {s[i] : i \in {j \in 1..Len(s) : s[j] \notin allowed}}

\* cmd.find("&&") != -1
ContainsAndAnd(cmd) == \E i \in 1..(Len(cmd) - 1) : cmd[i] = "&" /\ cmd[i+1] = "&"

\* cmd.startswith(os.path.sep)
startswith(cmd, c) == Len(cmd) >= 1 /\ cmd[1] = c

\* tok starts with the characters of pre (re.match of an anchored literal)
HasPrefix(tok, pre) == Len(tok) >= Len(pre) /\ SubSeq(tok, 1, Len(pre)) = pre

\* the least element of a non-empty set of numbers
Min(S) == CHOOSE i \in S : \A j \in S : i <= j

\* the pieces of s that begin at the places of starts and end at the next
\* place of ends, in the order of the text
RECURSIVE pieces(_, _, _)
pieces(s, starts, ends) ==
    IF starts = {} THEN <<>>
    ELSE LET i == Min(starts)
             j == Min({e \in ends : e >= i})
         IN  <<SubSeq(s, i, j)>> \o pieces(s, starts \ {i}, ends)

\* str.split(): the maximal runs of non-blank characters, in order (the
\* character check of addRule leaves the blank as the only white space)
split(s) ==
    pieces(s,
           {i \in 1..Len(s) : s[i] # " " /\ (i = 1 \/ s[i-1] = " ")},
           {j \in 1..Len(s) : s[j] # " " /\ (j = Len(s) \/ s[j+1] = " ")})

\* f.writelines(lines): the lines one after the other, nothing added
RECURSIVE writelines(_)
writelines(lines) ==
    IF lines = <<>> THEN <<>> ELSE Head(lines) \o writelines(Tail(lines))

\* f.readlines(): the text cut after every line break; what follows the last
\* line break, if anything, is a line too
readlines(text) ==
    pieces(text,
           {i \in 1..Len(text) : i = 1 \/ text[i-1] = NL},
           {j \in 1..Len(text) : text[j] = NL \/ j = Len(text)})

---------------------------------------------------------------------------
(* The helper's programs, found by _which with these fallbacks *)

su == <<"/","b","i","n","/","s","u">>
backintime == <<"/","u","s","r","/","b","i","n","/","b","a","c","k","i","n","t","i","m","e">>
nice == <<"/","u","s","r","/","b","i","n","/","n","i","c","e">>
ionice == <<"/","u","s","r","/","b","i","n","/","i","o","n","i","c","e">>

\* mutant: the helper runs with the PolicyKit check switched off
enforce_polkit_off == FALSE

\* self.enforce_polkit: set in __init__, assigned nowhere else
enforce_polkit == TRUE

---------------------------------------------------------------------------
(* SenderInfo: the bus resolves a sender to its unique name and its user *)

Senders == {":1.10", ":1.11", ":1.20"}

alice == <<"a","l","i","c","e">>
bob == <<"b","o","b">>
Users == {alice, bob}

\* SenderInfo.nameOwner: GetNameOwner of a unique name is that name
nameOwner(sender) == sender

\* SenderInfo.connectionUnixUser: pwd name of the uid of the connection;
\* :1.10 and :1.11 are two connections of one user
connectionUnixUser(sender) == IF sender = ":1.20" THEN bob ELSE alice

---------------------------------------------------------------------------
(* Validation *)

\* mutant: every token that begins with '-' is taken for a switch
RECURSIVE popSwitches_any(_, _)
popSwitches_any(parts, switches) ==
    IF parts # <<>> /\ HasPrefix(Head(parts), <<"-">>)
    THEN popSwitches_any(Tail(parts), switches)
    ELSE parts

\* one whitelist entry: while parts and re.match(switches, parts[0]): parts.pop(0)
RECURSIVE popSwitches(_, _)
popSwitches(parts, switches) ==
    IF parts # <<>> /\ (\E pre \in switches : HasPrefix(Head(parts), pre))
    THEN popSwitches(Tail(parts), switches)
    ELSE parts

\* r'^-n' for nice, r'(^-c|^-n)' for ionice
niceSwitches == {<<"-","n">>}
ioniceSwitches == {<<"-","c">>, <<"-","n">>}

\* the while/for/else loop over the whitelist: drop a leading nice or ionice
\* with its switches, again and again, until the head is neither
RECURSIVE stripWhitelist(_)
stripWhitelist(parts) ==
    IF parts = <<>> THEN parts
    ELSE IF Head(parts) = nice
         THEN stripWhitelist(popSwitches(Tail(parts), niceSwitches))
         ELSE IF Head(parts) = ionice
              THEN stripWhitelist(popSwitches(Tail(parts), ioniceSwitches))
              ELSE parts

\* mutant: the check for '&&' is missing
_validateCmd_noAndAnd(cmd) ==
    IF ~startswith(cmd, "/") THEN "InvalidCmd"
    ELSE LET parts == stripWhitelist(split(cmd)) IN
         IF parts = <<>> THEN "InvalidCmd"
         ELSE IF Head(parts) # backintime THEN "InvalidCmd"
         ELSE "ok"

\* UdevRules._validateCmd: "ok" (returns) or the exception raised
_validateCmd(cmd) ==
    IF ContainsAndAnd(cmd) THEN "InvalidCmd"
    ELSE IF ~startswith(cmd, "/") THEN "InvalidCmd"
    ELSE LET parts == stripWhitelist(split(cmd)) IN
         IF parts = <<>> THEN "InvalidCmd"
         ELSE IF Head(parts) # backintime THEN "InvalidCmd"
         ELSE "ok"

\* addRule, the two character checks
checkChars(cmd, uuid) ==
    IF findall(CmdChars, cmd) # {} THEN "InvalidChar"
    ELSE IF findall(UuidChars, uuid) # {} THEN "InvalidChar"
    ELSE "ok"

\* chars of the check that raises InvalidChar: the command is searched first,
\* the device id only when the command is clean
invalidChars(cmd, uuid) ==
    IF findall(CmdChars, cmd) # {} THEN findall(CmdChars, cmd) ELSE findall(UuidChars, uuid)

\* mutant: the whitelist is checked before the characters
validate_whitelistFirst(cmd, uuid) ==
    IF _validateCmd(cmd) # "ok" THEN _validateCmd(cmd)
    ELSE checkChars(cmd, uuid)

\* the validation step of addRule: the character checks, then _validateCmd
validate(cmd, uuid) ==
    IF checkChars(cmd, uuid) # "ok" THEN checkChars(cmd, uuid)
    ELSE _validateCmd(cmd)

\* self.tmpDict.get(owner, [])
get(d, owner) == IF owner \in DOMAIN d THEN d[owner] ELSE <<>>

\* mutant: the rule quota compared with > instead of >=
_checkLimits_offByOne(d, owner, cmd) ==
    IF Len(get(d, owner)) > max_rules THEN "LimitExceeded"
    ELSE IF Cardinality(DOMAIN d) >= max_users THEN "LimitExceeded"
    ELSE IF Len(cmd) > max_cmd_len THEN "LimitExceeded"
    ELSE "ok"

\* UdevRules._checkLimits
_checkLimits(d, owner, cmd) ==
    IF Len(get(d, owner)) >= max_rules THEN "LimitExceeded"
    ELSE IF Cardinality(DOMAIN d) >= max_users THEN "LimitExceeded"
    ELSE IF Len(cmd) > max_cmd_len THEN "LimitExceeded"
    ELSE "ok"

\* mutant: the su command names no user, so that the command runs as root
sucmd_asRoot(user, cmd) == su \o <<" -c '">> \o cmd \o <<"'">>

\* sucmd = "%s - '%s' -c '%s'" % (self.su, user, cmd)
sucmd(user, cmd) == su \o <<" - '">> \o user \o <<"' -c '">> \o cmd \o <<"'">>

\* mutant: the rule line lacks its line break
rule_noNewline(uuid, user, cmd) ==
    <<"ACTION==\"add|change\", ENV{ID_FS_UUID}==\"">> \o uuid
        \o <<"\", RUN+=\"">> \o sucmd(user, cmd) \o <<"\"">>

\* rule = 'ACTION=="add|change", ENV{ID_FS_UUID}=="%s", RUN+="%s"\n' % (uuid, sucmd)
rule(uuid, user, cmd) ==
    <<"ACTION==\"add|change\", ENV{ID_FS_UUID}==\"">> \o uuid
        \o <<"\", RUN+=\"">> \o sucmd(user, cmd) \o <<"\"">> \o <<NL>>

\* if not owner in self.tmpDict: self.tmpDict[owner] = []
\* self.tmpDict[owner].append(rule)
store(d, owner, r) ==
    [o \in DOMAIN d \cup {owner} |-> IF o = owner THEN Append(get(d, owner), r) ELSE d[o]]

\* mutant: the staged map is cleaned by user, not by owner
_clean_byUser(d, owner) ==
    [o \in {x \in DOMAIN d : connectionUnixUser(x) # connectionUnixUser(owner)} |-> d[o]]

\* UdevRules._clean
_clean(d, owner) == [o \in DOMAIN d \ {owner} |-> d[o]]

---------------------------------------------------------------------------
(* The Authorization Oracle (PolicyKit) *)

UdevRuleSave == "net.launchpad.backintime.UdevRuleSave"
UdevRuleDelete == "net.launchpad.backintime.UdevRuleDelete"

\* What the authority answers to the CheckAuthorization calls of one check:
\* ServiceUnknown some times (polkitd timed out), then is_auth True ("yes"),
\* is_auth False ("no") or another D-Bus error ("NoReply").
Unknowns(k) == [i \in 1..k |-> "ServiceUnknown"]
Answers == {Unknowns(k) \o <<f>> : k \in 0..MaxRetry, f \in {"yes", "no", "NoReply"}}

\* UdevRules._initPolkit
_initPolkit(p) == IF p = None THEN Some("Authority") ELSE p

\* mutant: a D-Bus error of the query is swallowed and the method returns
RECURSIVE _checkPolkitPrivilege_failOpen(_, _, _)
_checkPolkitPrivilege_failOpen(p, privilege, ans) ==
    LET proxy == _initPolkit(p)
        answer == Head(ans)
        query == <<privilege, answer>>
    IN  IF answer = "ServiceUnknown"
        THEN LET again == _checkPolkitPrivilege_failOpen(None, privilege, Tail(ans))
             IN  [again EXCEPT !.asked = <<query>> \o @]
        ELSE IF answer = "no"
        THEN [raised |-> "PermissionDeniedByPolicy", asked |-> <<query>>, polkit |-> proxy]
        ELSE [raised |-> Returned, asked |-> <<query>>, polkit |-> proxy]

\* UdevRules._checkPolkitPrivilege for a call that came over the bus (sender
\* and conn are set); p is self.polkit.  raised: Returned when the method returns,
\* else the exception; asked: the queries made, each with its answer.
RECURSIVE _checkPolkitPrivilege(_, _, _)
_checkPolkitPrivilege(p, privilege, ans) ==
    IF ~enforce_polkit
    THEN [raised |-> Returned, asked |-> <<>>, polkit |-> p]
    ELSE LET proxy == _initPolkit(p)
             answer == Head(ans)
             query == <<privilege, answer>>
         IN  IF answer = "ServiceUnknown"
             THEN LET again == _checkPolkitPrivilege(None, privilege, Tail(ans))
                  IN  [again EXCEPT !.asked = <<query>> \o @]
             ELSE IF answer = "NoReply"
             THEN [raised |-> "DBusException", asked |-> <<query>>, polkit |-> proxy]
             ELSE IF answer # "yes"
             THEN [raised |-> "PermissionDeniedByPolicy", asked |-> <<query>>, polkit |-> proxy]
             ELSE [raised |-> Returned, asked |-> <<query>>, polkit |-> proxy]

---------------------------------------------------------------------------
(* The four methods.  do_<method> is the handler on the state (d, f, p) =    *)
(* (self.tmpDict, the rule files, self.polkit): the state it leaves, the    *)
(* reply (return value or exception) and the oracle queries it made.        *)

Reply(d, f, p, result, asked) ==
    [tmpDict |-> d, files |-> f, polkit |-> p, result |-> result, asked |-> asked,
     chars |-> {}]

\* raise InvalidChar("... contains invalid character(s) %s" % '|'.join(set(chars))):
\* the reply names the set of the characters found
RaiseInvalidChar(d, f, p, chars) == [Reply(d, f, p, "InvalidChar", <<>>) EXCEPT !.chars = chars]

\* os.path.exists(UDEV_RULES_PATH % user)
exists(f, user) == f[user] # NoFile

\* mutant: the rule is stored before the limits are checked
do_addRule_storeFirst(d, f, p, sender, cmd, uuid) ==
    IF validate(cmd, uuid) # "ok"
    THEN Reply(d, f, p, validate(cmd, uuid), <<>>)
    ELSE LET user == connectionUnixUser(sender)
             owner == nameOwner(sender)
             d1 == store(d, owner, rule(uuid, user, cmd))
         IN  IF _checkLimits(d, owner, cmd) # "ok"
             THEN Reply(d1, f, p, _checkLimits(d, owner, cmd), <<>>)
             ELSE Reply(d1, f, p, Returned, <<>>)

\* UdevRules.addRule
do_addRule(d, f, p, sender, cmd, uuid) ==
    IF validate(cmd, uuid) = "InvalidChar"
    THEN RaiseInvalidChar(d, f, p, invalidChars(cmd, uuid))
    ELSE IF validate(cmd, uuid) # "ok"
    THEN Reply(d, f, p, validate(cmd, uuid), <<>>)
    ELSE LET user == connectionUnixUser(sender)
             owner == nameOwner(sender)
         IN  IF _checkLimits(d, owner, cmd) # "ok"
             THEN Reply(d, f, p, _checkLimits(d, owner, cmd), <<>>)
             ELSE Reply(store(d, owner, rule(uuid, user, cmd)), f, p, Returned, <<>>)

\* mutant: the staged list is dropped only once the oracle has approved
do_delete_cleanAfter(d, f, p, sender, ans) ==
    LET user == connectionUnixUser(sender)
        owner == nameOwner(sender)
        d1 == _clean(d, owner)
    IN  IF exists(f, user)
        THEN LET chk == _checkPolkitPrivilege(p, UdevRuleDelete, ans)
             IN  IF chk.raised # Returned
                 THEN Reply(d, f, chk.polkit, chk.raised, chk.asked)
                 ELSE Reply(d1, [f EXCEPT ![user] = NoFile], chk.polkit, Returned, chk.asked)
        ELSE Reply(d1, f, p, Returned, <<>>)

\* UdevRules.delete
do_delete(d, f, p, sender, ans) ==
    LET user == connectionUnixUser(sender)
        owner == nameOwner(sender)
        d1 == _clean(d, owner)
    IN  IF exists(f, user)
        THEN LET chk == _checkPolkitPrivilege(p, UdevRuleDelete, ans)
             IN  IF chk.raised # Returned
                 THEN Reply(d1, f, chk.polkit, chk.raised, chk.asked)
                 ELSE Reply(d1, [f EXCEPT ![user] = NoFile], chk.polkit, Returned, chk.asked)
        ELSE Reply(d1, f, p, Returned, <<>>)

\* mutant: the staged list is dropped before the authorization, as delete does
do_save_cleanFirst(d, f, p, sender, ans) ==
    LET user == connectionUnixUser(sender)
        owner == nameOwner(sender)
    IN  IF owner \notin DOMAIN d \/ d[owner] = <<>>
        THEN LET del == do_delete(d, f, p, sender, ans)
             IN  IF del.result # Returned THEN del ELSE [del EXCEPT !.result = "False"]
        ELSE IF exists(f, user) /\ d[owner] = readlines(f[user][1])
        THEN Reply(_clean(d, owner), f, p, "False", <<>>)
        ELSE LET chk == _checkPolkitPrivilege(p, UdevRuleSave, ans)
             IN  IF chk.raised # Returned
                 THEN Reply(_clean(d, owner), f, chk.polkit, chk.raised, chk.asked)
                 ELSE Reply(_clean(d, owner), [f EXCEPT ![user] = File(writelines(d[owner]))],
                            chk.polkit, "True", chk.asked)

\* mutant: the file is written before the authorization is checked
do_save_writeFirst(d, f, p, sender, ans) ==
    LET user == connectionUnixUser(sender)
        owner == nameOwner(sender)
    IN  IF owner \notin DOMAIN d \/ d[owner] = <<>>
        THEN LET del == do_delete(d, f, p, sender, ans)
             IN  IF del.result # Returned THEN del ELSE [del EXCEPT !.result = "False"]
        ELSE IF exists(f, user) /\ d[owner] = readlines(f[user][1])
        THEN Reply(_clean(d, owner), f, p, "False", <<>>)
        ELSE LET chk == _checkPolkitPrivilege(p, UdevRuleSave, ans)
                 f1 == [f EXCEPT ![user] = File(writelines(d[owner]))]
             IN  IF chk.raised # Returned
                 THEN Reply(d, f1, chk.polkit, chk.raised, chk.asked)
                 ELSE Reply(_clean(d, owner), f1, chk.polkit, "True", chk.asked)

\* mutant: the branch for an owner with nothing staged is missing
do_save_noEmptyCheck(d, f, p, sender, ans) ==
    LET user == connectionUnixUser(sender)
        owner == nameOwner(sender)
    IN  IF exists(f, user) /\ get(d, owner) = readlines(f[user][1])
        THEN Reply(_clean(d, owner), f, p, "False", <<>>)
        ELSE LET chk == _checkPolkitPrivilege(p, UdevRuleSave, ans)
             IN  IF chk.raised # Returned
                 THEN Reply(d, f, chk.polkit, chk.raised, chk.asked)
                 ELSE Reply(_clean(d, owner), [f EXCEPT ![user] = File(writelines(get(d, owner)))],
                            chk.polkit, "True", chk.asked)

\* mutant: the staged list is not compared with the rule file
do_save_noCompare(d, f, p, sender, ans) ==
    LET user == connectionUnixUser(sender)
        owner == nameOwner(sender)
    IN  IF owner \notin DOMAIN d \/ d[owner] = <<>>
        THEN LET del == do_delete(d, f, p, sender, ans)
             IN  IF del.result # Returned THEN del ELSE [del EXCEPT !.result = "False"]
        ELSE LET chk == _checkPolkitPrivilege(p, UdevRuleSave, ans)
             IN  IF chk.raised # Returned
                 THEN Reply(d, f, chk.polkit, chk.raised, chk.asked)
                 ELSE Reply(_clean(d, owner), [f EXCEPT ![user] = File(writelines(d[owner]))],
                            chk.polkit, "True", chk.asked)

\* mutant: a save that finds the rule file identical returns True
do_save_identicalTrue(d, f, p, sender, ans) ==
    LET user == connectionUnixUser(sender)
        owner == nameOwner(sender)
    IN  IF owner \notin DOMAIN d \/ d[owner] = <<>>
        THEN LET del == do_delete(d, f, p, sender, ans)
             IN  IF del.result # Returned THEN del ELSE [del EXCEPT !.result = "False"]
        ELSE IF exists(f, user) /\ d[owner] = readlines(f[user][1])
        THEN Reply(_clean(d, owner), f, p, "True", <<>>)
        ELSE LET chk == _checkPolkitPrivilege(p, UdevRuleSave, ans)
             IN  IF chk.raised # Returned
                 THEN Reply(d, f, chk.polkit, chk.raised, chk.asked)
                 ELSE Reply(_clean(d, owner), [f EXCEPT ![user] = File(writelines(d[owner]))],
                            chk.polkit, "True", chk.asked)

\* mutant: there is one rule file for all users
do_save_oneFile(d, f, p, sender, ans) ==
    LET user == alice
        owner == nameOwner(sender)
    IN  IF owner \notin DOMAIN d \/ d[owner] = <<>>
        THEN LET del == do_delete(d, f, p, sender, ans)
             IN  IF del.result # Returned THEN del ELSE [del EXCEPT !.result = "False"]
        ELSE IF exists(f, user) /\ d[owner] = readlines(f[user][1])
        THEN Reply(_clean(d, owner), f, p, "False", <<>>)
        ELSE LET chk == _checkPolkitPrivilege(p, UdevRuleSave, ans)
             IN  IF chk.raised # Returned
                 THEN Reply(d, f, chk.polkit, chk.raised, chk.asked)
                 ELSE Reply(_clean(d, owner), [f EXCEPT ![user] = File(writelines(d[owner]))],
                            chk.polkit, "True", chk.asked)

\* UdevRules.save
do_save(d, f, p, sender, ans) ==
    LET user == connectionUnixUser(sender)
        owner == nameOwner(sender)
    IN  IF owner \notin DOMAIN d \/ d[owner] = <<>>
        THEN LET del == do_delete(d, f, p, sender, ans)
             IN  IF del.result # Returned THEN del ELSE [del EXCEPT !.result = "False"]
        ELSE IF exists(f, user) /\ d[owner] = readlines(f[user][1])
        THEN Reply(_clean(d, owner), f, p, "False", <<>>)
        ELSE LET chk == _checkPolkitPrivilege(p, UdevRuleSave, ans)
             IN  IF chk.raised # Returned
                 THEN Reply(d, f, chk.polkit, chk.raised, chk.asked)
                 ELSE Reply(_clean(d, owner), [f EXCEPT ![user] = File(writelines(d[owner]))],
                            chk.polkit, "True", chk.asked)

\* mutant: clean removes the rule file as well
do_clean_removesFile(d, f, p, sender) ==
    Reply(_clean(d, nameOwner(sender)),
          [f EXCEPT ![connectionUnixUser(sender)] = NoFile], p, Returned, <<>>)

\* UdevRules.clean
do_clean(d, f, p, sender) == Reply(_clean(d, nameOwner(sender)), f, p, Returned, <<>>)

---------------------------------------------------------------------------
(* State machine *)

NoCall == [op |-> "none", sender |-> "none", cmd |-> <<>>, uuid |-> <<>>,
           result |-> "none", asked |-> <<>>, chars |-> {}]

\* the privilege the oracle approved as the last query of the call, or ""
Approved(asked) ==
    IF asked # <<>> /\ asked[Len(asked)][2] = "yes" THEN asked[Len(asked)][1] ELSE ""

\* history: an approved save makes its staged list the authorized rule list
\* of the user, an approved delete ends it
Authorize(h, op, sender, asked) ==
    IF op = "save" /\ Approved(asked) = UdevRuleSave
    THEN [h EXCEPT ![connectionUnixUser(sender)] = Some(get(tmpDict, nameOwner(sender)))]
    ELSE IF Approved(asked) = UdevRuleDelete
         THEN [h EXCEPT ![connectionUnixUser(sender)] = None]
         ELSE h

\* mutant: CheckAuthorization is called with reply handlers, the loop goes on
Blocked_async == FALSE

\* CheckAuthorization is called without reply_handler: the proxy call blocks
\* the one thread of the main loop until the reply (or the timeout) is there,
\* and no method call is dispatched meanwhile
Blocked == wait # None

\* the handler's effect becomes the state; the call and its reply are recorded
Effect(op, sender, cmd, uuid, r) ==
    /\ tmpDict' = r.tmpDict
    /\ files' = r.files
    /\ polkit' = r.polkit
    /\ last' = [op |-> op, sender |-> sender, cmd |-> cmd, uuid |-> uuid,
                result |-> r.result, asked |-> r.asked, chars |-> r.chars]
    /\ authSaved' = Authorize(authSaved, op, sender, r.asked)

\* one call dispatched by the main loop and handled to its reply
Commit(op, sender, cmd, uuid, r) ==
    /\ wr = None
    /\ ~Blocked
    /\ Effect(op, sender, cmd, uuid, r)
    /\ UNCHANGED wr

\* the decision of the validation step, read off the reply: only InvalidChar
\* and InvalidCmd come from it
Verdict(result) == IF result \in {"InvalidChar", "InvalidCmd"} THEN "reject" ELSE "accept"

addRule(sender, cmd, uuid) ==
    /\ Commit("addRule", sender, cmd, uuid, do_addRule(tmpDict, files, polkit, sender, cmd, uuid))
    /\ UNCHANGED <<probe, wait, execVars>>

save(sender, ans) ==
    /\ Commit("save", sender, <<>>, <<>>, do_save(tmpDict, files, polkit, sender, ans))
    /\ UNCHANGED <<probe, wait, execVars>>

delete(sender, ans) ==
    /\ Commit("delete", sender, <<>>, <<>>, do_delete(tmpDict, files, polkit, sender, ans))
    /\ UNCHANGED <<probe, wait, execVars>>

clean(sender) ==
    /\ Commit("clean", sender, <<>>, <<>>, do_clean(tmpDict, files, polkit, sender))
    /\ UNCHANGED <<probe, wait, execVars>>

\* signal.SIGTSTP, signal.SIGCONT, signal.SIGHUP
Signals == {"SIGTSTP", "SIGCONT", "SIGHUP"}

\* no child process
NoChild == [state |-> "none", todo |-> <<>>, written |-> <<>>, code |-> 0]

\* no second Execute object yet
NoSecond == [pc |-> "new", thread |-> "none", nested |-> FALSE, pausable |-> TRUE,
             currentProc |-> None, child |-> NoChild]

\* the process before an Execute object is made: default signal handling
NoExecute ==
    /\ self = None
    /\ pc = "new"
    /\ thread = "none"
    /\ handlers = [sig \in Signals |-> "SIG_DFL"]
    /\ child = NoChild
    /\ pipe = <<>>
    /\ delivered = <<>>
    /\ ret_val = 0
    /\ second = NoSecond

\* UdevRules.__init__, no rule file installed yet
Init ==
    /\ tmpDict = [o \in {} |-> <<>>]
    /\ files = [u \in Users |-> NoFile]
    /\ polkit = None
    /\ last = NoCall
    /\ authSaved = [u \in Users |-> None]
    /\ wr = None
    /\ probe = None
    /\ wait = None
    /\ NoExecute

(* Inputs of the calls *)

CmdBackup == <<"/","u","s","r","/","b","i","n","/","b","a","c","k","i","n","t","i","m","e"," ","b","a","c","k","u","p">>
CmdNiced == <<"/","u","s","r","/","b","i","n","/","n","i","c","e"," ","-","n","1","9"," ","/","u","s","r","/","b","i","n","/","i","o","n","i","c","e"," ","-","c","2"," ","-","n","7"," ","/","u","s","r","/","b","i","n","/","b","a","c","k","i","n","t","i","m","e"," ","b","a","c","k","u","p">>
CmdOther == <<"/","b","i","n","/","r","m"," ","-","r","f"," ","/","h","o","m","e">>
\* a valid command of max_cmd_len + 1 characters
CmdLong == backintime \o <<" ">> \o [i \in 1..(max_cmd_len - Len(backintime)) |-> "x"]

UuidOk == <<"1","2","3","4","-","u","u","i","d">>
UuidBad == <<"1","2"," ","3","4">>

Cmds == {CmdBackup, CmdOther, CmdLong}
Uuids == {UuidOk, UuidBad}

Calls(S, C, U) ==
    \/ \E sender \in S, cmd \in C, uuid \in U : addRule(sender, cmd, uuid)
    \/ \E sender \in S, ans \in Answers : save(sender, ans)
    \/ \E sender \in S, ans \in Answers : delete(sender, ans)
    \/ \E sender \in S : clean(sender)

Next == Calls(Senders, Cmds, Uuids)

Spec == Init /\ [][Next]_vars

---------------------------------------------------------------------------
(* Errors on the wire and in the client (tools.SetupUdev) *)

\* the D-Bus error name under which an exception of a handler reaches the
\* caller: _dbus_error_name of the four classes of the helper; an error of the
\* bus that a handler lets through keeps the name it came with
_dbus_error_name(exc) ==
    CASE exc = "InvalidChar" -> "net.launchpad.backintime.InvalidChar"
      [] exc = "InvalidCmd" -> "net.launchpad.backintime.InvalidCmd"
      [] exc = "LimitExceeded" -> "net.launchpad.backintime.LimitExceeded"
      [] exc = "PermissionDeniedByPolicy" -> "com.ubuntu.DeviceDriver.PermissionDeniedByPolicy"
      [] OTHER -> "org.freedesktop.DBus.Error.NoReply"

\* SetupUdev.addRule, the except clause: the exception the client raises for
\* a D-Bus error of the call
SetupUdev_addRule(name) ==
    IF name = "net.launchpad.backintime.InvalidChar" THEN "InvalidChar"
    ELSE IF name = "net.launchpad.backintime.InvalidCmd" THEN "InvalidCmd"
    ELSE IF name = "net.launchpad.backintime.LimitExceeded" THEN "LimitExceeded"
    ELSE "DBusException"

\* SetupUdev.save, the except clause
SetupUdev_save(name) ==
    IF name = "com.ubuntu.DeviceDriver.PermissionDeniedByPolicy" THEN "PermissionDeniedByPolicy"
    ELSE "DBusException"

\* what a client of SetupUdev gets raised when the call op failed with exc in
\* the helper (SetupUdev has methods for addRule, save and clean)
SetupUdev(op, exc) ==
    CASE op = "addRule" -> SetupUdev_addRule(_dbus_error_name(exc))
      [] op = "save" -> SetupUdev_save(_dbus_error_name(exc))
      [] OTHER -> "DBusException"

---------------------------------------------------------------------------
(* One owner staging different rules: the order of the lines matters *)

NextRoundTrip == Calls({":1.10"}, {CmdBackup, CmdNiced}, {UuidOk})

SpecRoundTrip == Init /\ [][NextRoundTrip]_vars

---------------------------------------------------------------------------
(* The write of save, system call by system call: what the rule file holds  *)
(* at each instant is what a reader of it sees then.  The helper has one    *)
(* thread: no other call is handled until the write is done.                *)

\* save up to and including open(UDEV_RULES_PATH % user, 'w'), which creates
\* or truncates the file; taken when save passes its checks and the oracle
\* approves
saveOpen(sender, ans) ==
    LET r == do_save(tmpDict, files, polkit, sender, ans)
        user == connectionUnixUser(sender)
    IN  /\ wr = None
        /\ r.result = "True"
        /\ wr' = Some([sender |-> sender, asked |-> r.asked, prev |-> files[user],
                       rest |-> writelines(tmpDict[nameOwner(sender)])])
        /\ files' = [files EXCEPT ![user] = File(<<>>)]
        /\ polkit' = r.polkit
        /\ UNCHANGED <<tmpDict, last, authSaved, probe, wait, execVars>>

\* f.writelines, f.close: the text goes through the writer's buffer and reaches
\* the file one buffer at a time, the remainder when the file is closed
saveFlush ==
    /\ wr # None
    /\ wr[1].rest # <<>>
    /\ LET user == connectionUnixUser(wr[1].sender)
           n == IF Len(wr[1].rest) > BufferSize THEN BufferSize ELSE Len(wr[1].rest)
       IN  /\ files' = [files EXCEPT ![user] = File(@[1] \o SubSeq(wr[1].rest, 1, n))]
           /\ wr' = Some([wr[1] EXCEPT !.rest = SubSeq(@, n + 1, Len(@))])
    /\ UNCHANGED <<tmpDict, polkit, last, authSaved, probe, wait, execVars>>

\* the file is closed with everything written; self._clean(owner); return True
saveClose ==
    /\ wr # None
    /\ wr[1].rest = <<>>
    /\ tmpDict' = _clean(tmpDict, nameOwner(wr[1].sender))
    /\ last' = [op |-> "save", sender |-> wr[1].sender, cmd |-> <<>>, uuid |-> <<>>,
                result |-> "True", asked |-> wr[1].asked, chars |-> {}]
    /\ authSaved' = Authorize(authSaved, "save", wr[1].sender, wr[1].asked)
    /\ wr' = None
    /\ UNCHANGED <<files, polkit, probe, wait, execVars>>

NextWrite ==
    \/ \E sender \in {":1.10"}, cmd \in {CmdBackup, CmdNiced} : addRule(sender, cmd, UuidOk)
    \/ \E sender \in {":1.10"}, ans \in Answers : saveOpen(sender, ans)
    \/ saveFlush
    \/ saveClose

SpecWrite == Init /\ [][NextWrite]_vars

---------------------------------------------------------------------------
(* The wait for the oracle.  A save or a delete that reaches                *)
(* _checkPolkitPrivilege stays inside CheckAuthorization until PolicyKit    *)
(* replies (the user may have to type a password).  A call that arrives     *)
(* meanwhile stays in the queue of the connection; its dispatch is a step   *)
(* of the model that the blocked loop cannot take.                          *)

\* the handler of save or delete
Handler(op, d, f, p, sender, ans) ==
    IF op = "save" THEN do_save(d, f, p, sender, ans) ELSE do_delete(d, f, p, sender, ans)

\* the handler gets as far as CheckAuthorization
NeedsOracle(op, sender) == Handler(op, tmpDict, files, polkit, sender, <<"yes">>).asked # <<>>

\* save or delete up to the CheckAuthorization call: delete, and save with
\* nothing staged, have dropped the caller's staged entry by then; the proxy
\* is there
checkAuthorization(op, sender) ==
    /\ wr = None
    /\ ~Blocked
    /\ NeedsOracle(op, sender)
    /\ wait' = Some([op |-> op, sender |-> sender, tmpDict |-> tmpDict, files |-> files])
    /\ tmpDict' = IF op = "delete" \/ get(tmpDict, nameOwner(sender)) = <<>>
                  THEN _clean(tmpDict, nameOwner(sender))
                  ELSE tmpDict
    /\ polkit' = _initPolkit(polkit)
    /\ UNCHANGED <<files, last, authSaved, wr, probe, execVars>>

\* the oracle replies and the handler runs from there to its end
authorizationReply(ans) ==
    /\ wait # None
    /\ Effect(wait[1].op, wait[1].sender, <<>>, <<>>,
              Handler(wait[1].op, tmpDict, files, polkit, wait[1].sender, ans))
    /\ wait' = None
    /\ UNCHANGED <<wr, probe, execVars>>

WaitSenders == {":1.10", ":1.20"}

NextWait ==
    \/ \E sender \in WaitSenders : addRule(sender, CmdBackup, UuidOk)
    \/ \E sender \in WaitSenders : clean(sender)
    \/ \E sender \in WaitSenders : ~NeedsOracle("save", sender) /\ save(sender, <<"yes">>)
    \/ \E sender \in WaitSenders : ~NeedsOracle("delete", sender) /\ delete(sender, <<"yes">>)
    \/ \E sender \in WaitSenders, op \in {"save", "delete"} : checkAuthorization(op, sender)
    \/ \E ans \in Answers : authorizationReply(ans)

SpecWait == Init /\ [][NextWait]_vars

---------------------------------------------------------------------------
(* The retry of _checkPolkitPrivilege, query by query.  The authority may   *)
(* answer ServiceUnknown to every query.  Before each query _initPolkit     *)
(* makes the proxy anew when there is none: get_object then has the bus     *)
(* start the authority, and raises when the bus cannot.  The retry is a     *)
(* call of the method by itself, so each retry is one more call on the      *)
(* stack of the interpreter.                                                *)

\* mutant: the retry is a loop inside one call, the stack does not grow
deeper_loop(depth) == depth

\* return self._checkPolkitPrivilege(sender, conn, privilege)
deeper(depth) == depth + 1

\* the call under way ends with an exception raised in _checkPolkitPrivilege
raiseInCheck(exc, p) ==
    /\ last' = [op |-> wait[1].op, sender |-> wait[1].sender, cmd |-> <<>>, uuid |-> <<>>,
                result |-> exc, asked |-> <<>>, chars |-> {}]
    /\ polkit' = p
    /\ wait' = None
    /\ UNCHANGED <<tmpDict, authSaved>>

\* save or delete up to its first CheckAuthorization call; started: the bus
\* has the authority running or can start it
firstQuery(op, sender, started) ==
    /\ wr = None
    /\ ~Blocked
    /\ NeedsOracle(op, sender)
    /\ polkit # None \/ started
    /\ wait' = Some([op |-> op, sender |-> sender, tmpDict |-> tmpDict, files |-> files,
                     depth |-> 1])
    /\ tmpDict' = IF op = "delete" \/ get(tmpDict, nameOwner(sender)) = <<>>
                  THEN _clean(tmpDict, nameOwner(sender))
                  ELSE tmpDict
    /\ polkit' = _initPolkit(polkit)
    /\ UNCHANGED <<files, last, authSaved, wr, probe, execVars>>

\* the query is answered with ServiceUnknown: self.polkit = None and the
\* method calls itself; the interpreter raises RecursionError when the stack
\* is full
serviceUnknown ==
    /\ wait # None
    /\ polkit # None
    /\ IF deeper(wait[1].depth) > recursionlimit
       THEN raiseInCheck("RecursionError", None)
       ELSE /\ wait' = Some([wait[1] EXCEPT !.depth = deeper(@)])
            /\ polkit' = None
            /\ UNCHANGED <<tmpDict, last, authSaved>>
    /\ UNCHANGED <<files, wr, probe, execVars>>

\* the call of the method by itself: _initPolkit raises when the authority
\* cannot be started, else the next query is made
nextQuery(started) ==
    /\ wait # None
    /\ polkit = None
    /\ IF ~started
       THEN raiseInCheck("DBusException", None)
       ELSE /\ polkit' = _initPolkit(polkit)
            /\ UNCHANGED <<tmpDict, last, authSaved, wait>>
    /\ UNCHANGED <<files, wr, probe, execVars>>

\* the query under way is answered, one way or the other
queryAnswered ==
    \/ serviceUnknown
    \/ \E f \in {"yes", "no", "NoReply"} : polkit # None /\ authorizationReply(<<f>>)

\* the handler goes on to its next query
queryAgain == \E started \in BOOLEAN : nextQuery(started)

NextRetry ==
    \/ \E sender \in WaitSenders : addRule(sender, CmdBackup, UuidOk)
    \/ \E sender \in WaitSenders : ~NeedsOracle("save", sender) /\ save(sender, <<"yes">>)
    \/ \E sender \in WaitSenders : ~NeedsOracle("delete", sender) /\ delete(sender, <<"yes">>)
    \/ \E sender \in WaitSenders, op \in {"save", "delete"}, started \in BOOLEAN :
          firstQuery(op, sender, started)
    \/ queryAnswered
    \/ queryAgain

\* CheckAuthorization is called with timeout=3000, so every query gets an
\* answer; the thread of the handler runs on
SpecRetry == Init /\ [][NextRetry]_vars /\ WF_vars(queryAnswered) /\ WF_vars(queryAgain)

---------------------------------------------------------------------------
(* The validation step of addRule, applied to one pair in many states *)

CmdAndAnd == <<"/","u","s","r","/","b","i","n","/","b","a","c","k","i","n","t","i","m","e"," ","b","a","c","k","u","p"," ","&","&"," ","/","b","i","n","/","r","m">>
CmdRelative == <<"u","s","r","/","b","i","n","/","b","a","c","k","i","n","t","i","m","e"," ","b","a","c","k","u","p">>
CmdPrefixOnly == <<"/","u","s","r","/","b","i","n","/","n","i","c","e"," ","-","n","1","9">>
CmdSemicolon == <<"/","u","s","r","/","b","i","n","/","b","a","c","k","i","n","t","i","m","e",";","l","s">>
CmdBackground == <<"/","u","s","r","/","b","i","n","/","b","a","c","k","i","n","t","i","m","e"," ","b","a","c","k","u","p"," ","&"," ","/","b","i","n","/","r","m">>
CmdQuoted == <<"/","u","s","r","/","b","i","n","/","b","a","c","k","i","n","t","i","m","e","'",";"," ","l","s"," ","'">>
CmdRedirect == <<"/","u","s","r","/","b","i","n","/","b","a","c","k","i","n","t","i","m","e"," ","b","a","c","k","u","p"," ",">","/","d","e","v","/","n","u","l","l">>

\* nice with its switch in front of another program
CmdNicedOther == nice \o <<" ","-","n","1","9"," ">> \o <<"/","b","i","n","/","r","m">>
\* nice with a switch that is none of its own
CmdNicedDash == nice \o <<" ","-","x"," ">> \o backintime
\* the number of -n written as a token of its own
CmdNicedSpace == nice \o <<" ","-","n"," ","1","9"," ">> \o backintime

ProbeCmds == {CmdBackup, CmdNiced, CmdOther, CmdLong, CmdAndAnd, CmdRelative,
              CmdPrefixOnly, CmdSemicolon, CmdQuoted, CmdBackground, CmdRedirect,
              CmdNicedOther, CmdNicedDash, CmdNicedSpace}
ProbeSenders == {":1.10", ":1.20"}

InitValidate ==
    /\ tmpDict = [o \in {} |-> <<>>]
    /\ files = [u \in Users |-> NoFile]
    /\ polkit = None
    /\ last = NoCall
    /\ authSaved = [u \in Users |-> None]
    /\ wr = None
    /\ probe \in {Some([cmd |-> c, uuid |-> u, verdicts |-> {}]) : c \in ProbeCmds, u \in Uuids}
    /\ wait = None
    /\ NoExecute

\* addRule with the pair under test; the verdict of its validation is collected
validateProbe(sender) ==
    /\ Commit("addRule", sender, probe[1].cmd, probe[1].uuid,
              do_addRule(tmpDict, files, polkit, sender, probe[1].cmd, probe[1].uuid))
    /\ probe' = Some([probe[1] EXCEPT !.verdicts = @ \cup {Verdict(last'.result)}])
    /\ UNCHANGED <<wait, execVars>>

NextValidate ==
    \/ \E sender \in ProbeSenders : validateProbe(sender)
    \/ \E sender \in ProbeSenders : addRule(sender, CmdBackup, UuidOk)
    \/ \E sender \in ProbeSenders : clean(sender)

SpecValidate == InitValidate /\ [][NextValidate]_vars

---------------------------------------------------------------------------
(* tools.Execute: a child process run under control, its output streamed    *)
(* line by line through filters to a callback.  A byte is a number, a       *)
(* character of a str is a string; a line is a sequence of them.            *)

\* the state of the rule service
brokerVars == <<tmpDict, files, polkit, last, authSaved, wr, probe, wait>>

\* bytes.decode(): the character of each byte
chr(b) == CASE b = 97 -> "a" [] b = 98 -> "b" [] b = 10 -> NL
decode(bytes) == [i \in 1..Len(bytes) |-> chr(bytes[i])]

\* str.rstrip('\n'): every trailing line break goes
RECURSIVE rstrip(_)
rstrip(line) ==
    IF line # <<>> /\ line[Len(line)] = NL
    THEN rstrip(SubSeq(line, 1, Len(line) - 1))
    ELSE line

\* the filters a caller may pass: what f(line) returns, and whether it raises
filterResult(f, line) ==
    CASE f = "AtoB" -> IF line = <<"a">> THEN <<"b">> ELSE line
      [] f = "dropB" -> IF line = <<"b">> THEN <<>> ELSE line
      [] OTHER -> line
filterRaises(f, line) == f = "failOnA" /\ line = <<"a">>

\* the callbacks a caller may pass: whether callback(line, user_data) raises
callbackRaises(callback, line) == callback = "failOnB" /\ line = <<"b">>

\* mutant: the filters are applied from the last to the first
RECURSIVE applyFilters_reversed(_, _)
applyFilters_reversed(filters, line) ==
    IF filters = <<>> THEN [raised |-> FALSE, line |-> line]
    ELSE LET f == filters[Len(filters)] IN
         IF filterRaises(f, line) THEN [raised |-> TRUE, line |-> line]
         ELSE applyFilters_reversed(SubSeq(filters, 1, Len(filters) - 1), filterResult(f, line))

\* for f in self.filters: line = f(line)
RECURSIVE applyFilters(_, _)
applyFilters(filters, line) ==
    IF filters = <<>> THEN [raised |-> FALSE, line |-> line]
    ELSE IF filterRaises(Head(filters), line) THEN [raised |-> TRUE, line |-> line]
    ELSE applyFilters(Tail(filters), filterResult(Head(filters), line))

\* the body of the loop over the child's stdout for one line read: whether an
\* exception leaves it, and the calls of the callback it made
streamLine(obj, raw) ==
    LET fl == applyFilters(obj.filters, rstrip(decode(raw))) IN
    IF fl.raised THEN [raised |-> TRUE, calls |-> <<>>]
    ELSE IF fl.line = <<>> THEN [raised |-> FALSE, calls |-> <<>>]
    ELSE [raised |-> callbackRaises(obj.callback, fl.line),
          calls |-> << <<fl.line, obj.user_data>> >>]

\* Popen.send_signal: nothing for a child that has exited; SIGSTOP stops a
\* running child, SIGCONT lets a stopped one go on, SIGKILL ends it with
\* return code -9 and whatever it had still to write is lost
send_signal(ch, sig) ==
    IF ch.state \notin {"running", "stopped"} THEN ch
    ELSE CASE sig = "SIGSTOP" -> [ch EXCEPT !.state = "stopped"]
           [] sig = "SIGCONT" -> [ch EXCEPT !.state = "running"]
           [] sig = "SIGKILL" -> [ch EXCEPT !.state = "exited", !.todo = <<>>, !.code = -9]

\* mutant: the signal is forwarded whatever self.pausable says
forward_always(obj, ch, sig) ==
    IF obj.currentProc # None THEN send_signal(ch, sig) ELSE ch

\* Execute.pause, Execute.resume, Execute.kill: the common guard and the
\* signal each sends to the child
forward(obj, ch, sig) ==
    IF obj.pausable /\ obj.currentProc # None THEN send_signal(ch, sig) ELSE ch

\* the signal the method installed for sig sends on
Forwarded(method) ==
    CASE method = "pause" -> "SIGSTOP" [] method = "resume" -> "SIGCONT" [] method = "kill" -> "SIGKILL"

\* signal.signal(SIGTSTP, self.pause) etc.
Installed == [sig \in Signals |->
                CASE sig = "SIGTSTP" -> "pause" [] sig = "SIGCONT" -> "resume" [] sig = "SIGHUP" -> "kill"]
Default == [sig \in Signals |-> "SIG_DFL"]

\* mutant: a command that is no list is taken as it is (and run by a shell)
isinstance_list_any(cmd) == TRUE

\* isinstance(self.cmd, list)
isinstance_list(cmd) == cmd.type = "list"

\* Execute.__init__
Execute(cmd, callback, user_data, filters) ==
    /\ pc = "new"
    /\ IF ~isinstance_list(cmd)
       THEN /\ pc' = "RuntimeError"
            /\ self' = None
       ELSE /\ pc' = "ready"
            /\ self' = Some([cmd |-> cmd, callback |-> callback, user_data |-> user_data,
                             filters |-> filters, currentProc |-> None, pausable |-> TRUE])
    /\ UNCHANGED <<thread, handlers, child, pipe, delivered, ret_val>>
    /\ UNCHANGED <<brokerVars, second>>

\* the caller sets proc.pausable = False before run()
setPausable(b) ==
    /\ pc = "ready"
    /\ self[1].pausable # b
    /\ self' = Some([self[1] EXCEPT !.pausable = b])
    /\ UNCHANGED <<pc, thread, handlers, child, pipe, delivered, ret_val>>
    /\ UNCHANGED <<brokerVars, second>>

\* mutant: the ValueError of signal.signal leaves run()
run_signal_abort(th) ==
    /\ pc = "ready"
    /\ ret_val' = 0
    /\ thread' = th
    /\ handlers' = IF th = "main" THEN Installed ELSE handlers
    /\ pc' = IF th = "main" THEN "installed" ELSE "raised"
    /\ UNCHANGED <<self, child, pipe, delivered>>
    /\ UNCHANGED <<brokerVars, second>>

\* run(), the first try block: signal.signal raises ValueError in a thread
\* other than the main thread, and the ValueError is passed over
run_signal(th) ==
    /\ pc = "ready"
    /\ ret_val' = 0
    /\ thread' = th
    /\ handlers' = IF th = "main" THEN Installed ELSE handlers
    /\ pc' = "installed"
    /\ UNCHANGED <<self, child, pipe, delivered>>
    /\ UNCHANGED <<brokerVars, second>>

\* run(), subprocess.Popen: the child starts with the output it is going to
\* write and the code it is going to exit with, or Popen raises OSError
run_Popen(ok, todo, code) ==
    /\ pc = "installed"
    /\ IF ok
       THEN /\ child' = [state |-> "running", todo |-> todo, written |-> <<>>, code |-> code]
            /\ self' = Some([self[1] EXCEPT !.currentProc = Some("Popen")])
            /\ pc' = IF self[1].callback # "None" THEN "streaming" ELSE "communicate"
       ELSE /\ pc' = "raised"
            /\ UNCHANGED <<self, child>>
    /\ UNCHANGED <<thread, handlers, pipe, delivered, ret_val>>
    /\ UNCHANGED <<brokerVars, second>>

\* run(), one turn of: for line in self.currentProc.stdout
run_line ==
    /\ pc = "streaming"
    /\ pipe # <<>>
    /\ LET r == streamLine(self[1], Head(pipe)) IN
       /\ delivered' = delivered \o r.calls
       /\ pc' = IF r.raised THEN "raised" ELSE "streaming"
    /\ pipe' = Tail(pipe)
    /\ UNCHANGED <<self, thread, handlers, child, ret_val>>
    /\ UNCHANGED <<brokerVars, second>>

\* mutant: the loop over stdout does not see the end of stream of a child
\* that was killed
run_eof_natural ==
    /\ pc = "streaming"
    /\ pipe = <<>>
    /\ child.state = "exited"
    /\ child.code >= 0
    /\ pc' = "communicate"
    /\ UNCHANGED <<self, thread, handlers, child, pipe, delivered, ret_val>>
    /\ UNCHANGED <<brokerVars, second>>

\* run(), the loop ends at end of stream: nothing in the pipe and the child,
\* the only writer, gone
run_eof ==
    /\ pc = "streaming"
    /\ pipe = <<>>
    /\ child.state = "exited"
    /\ pc' = "communicate"
    /\ UNCHANGED <<self, thread, handlers, child, pipe, delivered, ret_val>>
    /\ UNCHANGED <<brokerVars, second>>

\* mutant: Popen.wait() in place of communicate(): nothing is read
communicate_reads_never(p) == FALSE

\* Popen.communicate() reads stdout, while there is something, as it waits
communicate_reads(p) == p # <<>>

\* run(), communicate(): a line of the pipe goes to out (which is only logged)
run_communicate ==
    /\ pc = "communicate"
    /\ communicate_reads(pipe)
    /\ pipe' = Tail(pipe)
    /\ UNCHANGED <<self, pc, thread, handlers, child, delivered, ret_val>>
    /\ UNCHANGED <<brokerVars, second>>

\* mutant: run() returns 0 whatever the child returned
returncode_zero(ch) == 0

\* self.currentProc.returncode once the child has been waited for
returncode(ch) == ch.code

\* run(), communicate() returns at end of stream with the child waited for;
\* ret_val is set, the second try block resets the handlers (ValueError is
\* passed over again), the result is logged and returned
run_return ==
    /\ pc = "communicate"
    /\ ~communicate_reads(pipe)
    /\ child.state = "exited"
    /\ ret_val' = returncode(child)
    /\ handlers' = IF thread = "main" THEN Default ELSE handlers
    /\ pc' = "returned"
    /\ UNCHANGED <<self, thread, child, pipe, delivered>>
    /\ UNCHANGED <<brokerVars, second>>

\* the child writes its next line when the pipe has room for it
childWrite ==
    /\ child.state = "running"
    /\ child.todo # <<>>
    /\ Len(pipe) < PipeCap
    /\ pipe' = Append(pipe, Head(child.todo))
    /\ child' = [child EXCEPT !.todo = Tail(@), !.written = Append(@, Head(child.todo))]
    /\ UNCHANGED <<self, pc, thread, handlers, delivered, ret_val>>
    /\ UNCHANGED <<brokerVars, second>>

\* the child has written everything and exits
childExit ==
    /\ child.state = "running"
    /\ child.todo = <<>>
    /\ child' = [child EXCEPT !.state = "exited"]
    /\ UNCHANGED <<self, pc, thread, handlers, pipe, delivered, ret_val>>
    /\ UNCHANGED <<brokerVars, second>>

\* a signal for which a method is installed arrives: Python calls the method
\* in the main thread, whatever run() is doing
signalArrives(sig) ==
    /\ handlers[sig] # "SIG_DFL"
    /\ child' = forward(self[1], child, Forwarded(handlers[sig]))
    /\ UNCHANGED <<self, pc, thread, handlers, pipe, delivered, ret_val>>
    /\ UNCHANGED <<brokerVars, second>>

(* Inputs *)

CmdList == [type |-> "list", value |-> <<"rsync", "-a", "src", "dst">>]
CmdString == [type |-> "str", value |-> <<"rsync -a src dst">>]

\* the lines a child may write, as bytes: a, b, an empty line
RawLines == {<<97, 10>>, <<98, 10>>, <<10>>}

\* the outputs of at most n lines
Outputs(n) == UNION {[1..k -> RawLines] : k \in 0..n}

Callbacks == {"None", "collect", "failOnB"}
FilterChains == {<<>>, <<"AtoB", "dropB">>, <<"dropB", "AtoB">>, <<"failOnA">>}

NextExecute ==
    \/ \E cmd \in {CmdList, CmdString}, callback \in Callbacks, filters \in FilterChains :
          Execute(cmd, callback, "user_data", filters)
    \/ setPausable(FALSE)
    \/ \E th \in {"main", "other"} : run_signal(th)
    \/ \E ok \in BOOLEAN, todo \in Outputs(MaxLines), code \in {0, 23} : run_Popen(ok, todo, code)
    \/ run_line
    \/ run_eof
    \/ run_communicate
    \/ run_return
    \/ childWrite
    \/ childExit
    \/ \E sig \in Signals : signalArrives(sig)

SpecExecute == Init /\ [][NextExecute]_vars

(* The run of a child that is left alone: no signal arrives, nothing raises. *)
(* The thread of run() keeps running and the system schedules the child.    *)

NextDrain ==
    \/ \E callback \in {"None", "collect"}, filters \in {<<>>, <<"dropB", "AtoB">>} :
          Execute(CmdList, callback, "user_data", filters)
    \/ run_signal("main")
    \/ \E todo \in Outputs(MaxLines), code \in {0, 23} : run_Popen(TRUE, todo, code)
    \/ run_line
    \/ run_eof
    \/ run_communicate
    \/ run_return
    \/ childWrite
    \/ childExit

SpecDrain ==
    /\ Init
    /\ [][NextDrain]_vars
    /\ WF_vars(run_line) /\ WF_vars(run_eof) /\ WF_vars(run_communicate) /\ WF_vars(run_return)
    /\ WF_vars(childWrite) /\ WF_vars(childExit)

---------------------------------------------------------------------------
(* The run of a child to which signals are forwarded.  Nothing raises; the  *)
(* thread of run() keeps running, the child may stay stopped for ever.      *)

NextHangup ==
    \/ \E callback \in {"None", "collect"}, filters \in {<<>>, <<"dropB", "AtoB">>} :
          Execute(CmdList, callback, "user_data", filters)
    \/ setPausable(FALSE)
    \/ run_signal("main")
    \/ \E todo \in Outputs(MaxLines), code \in {0, 23} : run_Popen(TRUE, todo, code)
    \/ run_line
    \/ run_eof
    \/ run_communicate
    \/ run_return
    \/ childWrite
    \/ childExit
    \/ \E sig \in Signals : signalArrives(sig)

SpecHangup ==
    /\ Init
    /\ [][NextHangup]_vars
    /\ WF_vars(run_line) /\ WF_vars(run_eof) /\ WF_vars(run_communicate) /\ WF_vars(run_return)

---------------------------------------------------------------------------
(* Two Execute objects in one process.  The signal table belongs to the     *)
(* process, each object has its own child.  The second object is run while  *)
(* the first is inside run(): by another thread, or by the callback of the  *)
(* first (in the thread of the first, which goes on when the second run()   *)
(* has returned).  The child of the second writes nothing.                  *)

\* signal.signal(SIGTSTP, self.pause) etc. in run() of the second object: the
\* methods bound to it
Installed2 == [sig \in Signals |->
                CASE sig = "SIGTSTP" -> "second.pause" [] sig = "SIGCONT" -> "second.resume"
                  [] sig = "SIGHUP" -> "second.kill"]

\* the signal each method of the second object sends on
Forwarded2(method) ==
    CASE method = "second.pause" -> "SIGSTOP" [] method = "second.resume" -> "SIGCONT"
      [] method = "second.kill" -> "SIGKILL"

\* run() of the first object is inside callback(line, user_data), which is
\* inside run() of the second
Suspended == second.nested /\ second.pc \in {"installed", "running"}

\* run() of the second object, the first try block
second_run_signal(th, nested) ==
    /\ second.pc = "new"
    /\ IF nested
       THEN pc = "streaming" /\ pipe # <<>> /\ th = thread
       ELSE pc \in {"streaming", "communicate"} /\ ~(th = "main" /\ thread = "main")
    /\ second' = [second EXCEPT !.pc = "installed", !.thread = th, !.nested = nested]
    /\ handlers' = IF th = "main" THEN Installed2 ELSE handlers
    /\ UNCHANGED <<self, pc, thread, child, pipe, delivered, ret_val>>
    /\ UNCHANGED brokerVars

\* run() of the second object, subprocess.Popen
second_run_Popen ==
    /\ second.pc = "installed"
    /\ second' = [second EXCEPT !.pc = "running", !.currentProc = Some("Popen"),
                                !.child = [NoChild EXCEPT !.state = "running"]]
    /\ UNCHANGED <<self, pc, thread, handlers, child, pipe, delivered, ret_val>>
    /\ UNCHANGED brokerVars

\* the child of the second object exits
second_childExit ==
    /\ second.child.state = "running"
    /\ second' = [second EXCEPT !.child.state = "exited"]
    /\ UNCHANGED <<self, pc, thread, handlers, child, pipe, delivered, ret_val>>
    /\ UNCHANGED brokerVars

\* run() of the second object from the end of stream to its return: the second
\* try block resets the three handlers
second_run_return ==
    /\ second.pc = "running"
    /\ second.child.state = "exited"
    /\ second' = [second EXCEPT !.pc = "returned"]
    /\ handlers' = IF second.thread = "main" THEN Default ELSE handlers
    /\ UNCHANGED <<self, pc, thread, child, pipe, delivered, ret_val>>
    /\ UNCHANGED brokerVars

\* a signal arrives while a method of the second object is installed for it
second_signalArrives(sig) ==
    /\ handlers[sig] \in {Installed2[s] : s \in Signals}
    /\ second' = [second EXCEPT !.child = forward(second, @, Forwarded2(handlers[sig]))]
    /\ UNCHANGED <<self, pc, thread, handlers, child, pipe, delivered, ret_val>>
    /\ UNCHANGED brokerVars

NextTwo ==
    \/ \E callback \in {"None", "collect"} : Execute(CmdList, callback, "user_data", <<>>)
    \/ \E th \in {"main", "other"} : run_signal(th)
    \/ \E todo \in Outputs(MaxLines) : run_Popen(TRUE, todo, 0)
    \/ ~Suspended /\ run_line
    \/ ~Suspended /\ run_eof
    \/ ~Suspended /\ run_communicate
    \/ ~Suspended /\ run_return
    \/ childWrite
    \/ childExit
    \/ \E sig \in Signals : handlers[sig] \in {Installed[s] : s \in Signals} /\ signalArrives(sig)
    \/ \E th \in {"main", "other"}, nested \in BOOLEAN : second_run_signal(th, nested)
    \/ second_run_Popen
    \/ second_childExit
    \/ second_run_return
    \/ \E sig \in Signals : second_signalArrives(sig)

SpecTwo == Init /\ [][NextTwo]_vars

---------------------------------------------------------------------------
(* tools.rsyncCaps and tools.rsyncPrefix: the command vector for rsync.     *)
(* The output of 'rsync --version' is a sequence of tokens: words, blanks,  *)
(* commas and line breaks.  An argument of the vector is a string.          *)

\* the version numbers that occur, and packaging.version.Version of each as
\* 10 * major + minor
VersionTokens == {"2.6", "3.0", "3.1", "3.2"}
Version(tok) == CASE tok = "2.6" -> 26 [] tok = "3.0" -> 30 [] tok = "3.1" -> 31 [] tok = "3.2" -> 32
\* a third component of a version number
PatchTokens == {".0", ".7"}

\* \s*: the place of the first token from place i on that is no white space
RECURSIVE skipSpace(_, _)
skipSpace(data, i) ==
    IF i <= Len(data) /\ data[i] \in {" ", NL} THEN skipSpace(data, i + 1) ELSE i

\* the place after 'rsync\s*version\s*' matched at the start of data, or 0
versionAt(data) ==
    IF data # <<>> /\ data[1] = "rsync"
    THEN LET i == skipSpace(data, 2) IN
         IF i <= Len(data) /\ data[i] = "version" THEN skipSpace(data, i + 1) ELSE 0
    ELSE 0

\* re.match(r'rsync\s*version\s*(\d\.\d)', data): the group, or None
matchVersion(data) ==
    LET j == versionAt(data) IN
    IF j > 0 /\ j <= Len(data) /\ data[j] \in VersionTokens THEN Some(data[j]) ELSE None

\* re.match(r'rsync\s*version\s*v(\d\.\d.\d)', data): the group (its first two
\* components), or None
matchVersionV(data) ==
    LET j == versionAt(data) IN
    IF /\ j > 0 /\ j + 2 <= Len(data) /\ data[j] = "v"
       /\ data[j+1] \in VersionTokens /\ data[j+2] \in PatchTokens
    THEN Some(data[j+1]) ELSE None

\* the loop over the two matchers: 'progress2' for rsync >= 3.1
progressCaps(data) ==
    LET m1 == matchVersion(data)
        m2 == matchVersionV(data)
    IN  IF m1 # None /\ Version(m1[1]) >= Version("3.1") THEN << <<"progress2">> >>
        ELSE IF m2 # None /\ Version(m2[1]) >= Version("3.1") THEN << <<"progress2">> >>
        ELSE <<>>

\* the greatest element of a non-empty set of numbers
Max(S) == CHOOSE i \in S : \A j \in S : i >= j

\* re.match(r'.*Capabilities:(.+)\n\n.*', data, re.DOTALL): the group, or
\* None.  Both '.*' and '.+' are greedy: the last 'Capabilities:' that an empty
\* line follows, up to the last empty line
matchCapabilities(data) ==
    LET ends == {j \in 1..(Len(data) - 1) : data[j] = NL /\ data[j+1] = NL}
        begins == {i \in 1..Len(data) : data[i] = "Capabilities:" /\ \E j \in ends : j >= i + 2}
    IN  IF begins = {} THEN None
        ELSE Some(SubSeq(data, Max(begins) + 1, Max(ends) - 1))

\* a token that is part of an entry: no separator and no blank
IsWord(t) == t \notin {",", NL, " "}

\* for line in group.split('\n'): [i.strip(' \n') for i in line.split(',')
\* if i.strip(' \n')]: the entries between commas and line breaks, the blanks
\* around each taken off, the empty ones left out
entries(g) ==
    LET sameEntry(a, b) == \A k \in a..b : g[k] \notin {",", NL}
    IN  pieces(g,
               {i \in 1..Len(g) : IsWord(g[i]) /\ \A k \in 1..(i-1) : sameEntry(k, i) => ~IsWord(g[k])},
               {j \in 1..Len(g) : IsWord(g[j]) /\ \A k \in (j+1)..Len(g) : sameEntry(j, k) => ~IsWord(g[k])})

\* rsyncCaps() without data: 'rsync --version' is run (Popen raises when there
\* is no rsync to run) and its output parsed
rsyncCaps(version) ==
    IF version.raised THEN [raised |-> "FileNotFoundError", caps |-> <<>>]
    ELSE LET m == matchCapabilities(version.data) IN
         [raised |-> Returned,
          caps |-> IF m = None THEN progressCaps(version.data)
                   ELSE progressCaps(version.data) \o entries(m[1])]

\* x in caps
InCaps(x, caps) == \E i \in 1..Len(caps) : caps[i] = <<x>>

\* ' '.join(words)
RECURSIVE join(_)
join(words) ==
    IF words = <<>> THEN ""
    ELSE IF Len(words) = 1 THEN words[1]
    ELSE words[1] \o " " \o join(Tail(words))

\* shlex.split of a text without quotes: its words
shlex_split(text) == SelectSeq(text, LAMBDA t : t # " ")

\* rsyncSshArgs
rsyncSshArgs(config, use_mode) ==
    IF /\ config.snapshotsMode \in {"ssh", "ssh_encfs"}
       /\ \E i \in 1..Len(use_mode) : use_mode[i] = config.snapshotsMode
    THEN << "--rsh=" \o join(config.sshCommand) >>
         \o (IF config.niceOnRemote \/ config.ioniceOnRemote \/ config.nocacheOnRemote
             THEN << "--rsync-path="
                     \o (IF config.niceOnRemote THEN "nice -n 19 " ELSE "")
                     \o (IF config.ioniceOnRemote THEN "ionice -c2 -n7 " ELSE "")
                     \o (IF config.nocacheOnRemote THEN "nocache " ELSE "")
                     \o "rsync" >>
             ELSE <<>>)
    ELSE <<>>

\* rsyncPrefix, from cmd = [] to '--one-file-system'
prefixBehaviour(config) ==
    (IF config.nocacheOnLocal THEN <<"nocache">> ELSE <<>>)
    \o <<"rsync">>
    \o <<"--recursive", "--times", "--devices", "--specials", "--hard-links",
         "--human-readable", "-s">>
    \o (IF config.useChecksum \/ config.forceUseChecksum THEN <<"--checksum">> ELSE <<>>)
    \o (IF config.copyUnsafeLinks THEN <<"--copy-unsafe-links">> ELSE <<>>)
    \o (IF config.copyLinks THEN <<"--copy-links">> ELSE <<"--links">>)
    \o (IF config.oneFileSystem THEN <<"--one-file-system">> ELSE <<>>)

\* rsyncPrefix, '--acls' to '--owner': no_perms is set to False with each of
\* '--acls' and '--xattrs'
prefixPermissions(config, caps, no_perms) ==
    LET acls == config.preserveAcl /\ InCaps("ACLs", caps)
        xattrs == config.preserveXattr /\ InCaps("xattrs", caps)
    IN  (IF acls THEN <<"--acls">> ELSE <<>>)
        \o (IF xattrs THEN <<"--xattrs">> ELSE <<>>)
        \o (IF no_perms /\ ~acls /\ ~xattrs
            THEN <<"--no-perms", "--no-group", "--no-owner">>
            ELSE <<"--perms", "--executability", "--group", "--owner">>)

\* rsyncPrefix, progress, bandwidth limit and the options the user wrote
prefixOptions(config, caps, progress) ==
    (IF progress /\ InCaps("progress2", caps)
     THEN <<"--info=progress2", "--no-inc-recursive">> ELSE <<>>)
    \o (IF config.bwlimitEnabled THEN << "--bwlimit=" \o ToString(config.bwlimit) >> ELSE <<>>)
    \o (IF config.rsyncOptionsEnabled THEN shlex_split(config.rsyncOptions) ELSE <<>>)

\* mutant: the arguments for the remote shell are put in front of the permissions
rsyncPrefix_sshEarly(config, no_perms, use_mode, progress, version) ==
    LET c == rsyncCaps(version) IN
    IF c.raised # Returned THEN [raised |-> c.raised, cmd |-> <<>>, caps |-> <<>>]
    ELSE [raised |-> Returned, caps |-> c.caps,
          cmd |-> prefixBehaviour(config)
                  \o rsyncSshArgs(config, use_mode)
                  \o prefixPermissions(config, c.caps, no_perms)
                  \o prefixOptions(config, c.caps, progress)]

\* rsyncPrefix; version is what running 'rsync --version' comes to.  raised:
\* Returned or the exception; cmd: the list returned; caps: the local caps
rsyncPrefix(config, no_perms, use_mode, progress, version) ==
    LET c == rsyncCaps(version) IN
    IF c.raised # Returned THEN [raised |-> c.raised, cmd |-> <<>>, caps |-> <<>>]
    ELSE [raised |-> Returned, caps |-> c.caps,
          cmd |-> prefixBehaviour(config)
                  \o prefixPermissions(config, c.caps, no_perms)
                  \o prefixOptions(config, c.caps, progress)
                  \o rsyncSshArgs(config, use_mode)]

(* Inputs *)

\* rsync 3.2.7 with ACLs and xattrs
VersionNew ==
    <<"rsync", " ", " ", "version", " ", "3.2", ".7", " ", "protocol", NL,
      "Capabilities:", NL, " ", "64-bit", " ", "files", ",", " ", "ACLs", ",", NL,
      " ", "xattrs", ",", " ", "iconv", NL, NL, "rsync", " ", "comes", NL>>
\* the version written as v3.2.7, built without ACLs
VersionV ==
    <<"rsync", " ", "version", " ", "v", "3.2", ".7", NL,
      "Capabilities:", NL, " ", "no", " ", "ACLs", ",", " ", "xattrs", NL, NL>>
\* rsync 3.0 without xattrs
VersionOld ==
    <<"rsync", " ", "version", " ", "3.0", ".7", NL,
      "Capabilities:", " ", "ACLs", ",", " ", "no", " ", "xattrs", NL, NL>>
\* not the output of rsync
VersionOther == <<"usage:", " ", "rsync", NL, NL>>
\* no output: rsync ended with an error
VersionEmpty == <<>>

Versions ==
    {[raised |-> TRUE, data |-> <<>>]}
    \cup {[raised |-> FALSE, data |-> d] :
            d \in {VersionNew, VersionV, VersionOld, VersionOther, VersionEmpty}}

\* the profiles: every combination of the switches
Configs ==
    {[nocacheOnLocal |-> b[1], useChecksum |-> b[2], forceUseChecksum |-> FALSE,
      copyUnsafeLinks |-> b[3], copyLinks |-> b[4], oneFileSystem |-> b[5],
      preserveAcl |-> b[6], preserveXattr |-> b[7],
      bwlimitEnabled |-> b[8], bwlimit |-> 100,
      rsyncOptionsEnabled |-> b[9], rsyncOptions |-> <<"--compress", " ", "--delete-excluded">>,
      snapshotsMode |-> mode, sshCommand |-> <<"ssh", "-p", "22">>,
      niceOnRemote |-> r[1], ioniceOnRemote |-> r[2], nocacheOnRemote |-> r[3]] :
        b \in [1..9 -> BOOLEAN], r \in [1..3 -> BOOLEAN], mode \in {"local", "ssh"}}

InitRsync ==
    /\ tmpDict = [o \in {} |-> <<>>]
    /\ files = [u \in Users |-> NoFile]
    /\ polkit = None
    /\ last = NoCall
    /\ authSaved = [u \in Users |-> None]
    /\ wr = None
    /\ probe \in {Some([config |-> c, no_perms |-> n, progress |-> p, version |-> v,
                        result |-> None]) :
                    c \in Configs, n \in BOOLEAN, p \in BOOLEAN, v \in Versions}
    /\ wait = None
    /\ NoExecute

\* the call rsyncPrefix(config, no_perms, progress=progress)
callRsyncPrefix ==
    /\ probe # None
    /\ probe[1].result = None
    /\ probe' = Some([probe[1] EXCEPT !.result =
                        Some(rsyncPrefix(probe[1].config, probe[1].no_perms,
                                         <<"ssh", "ssh_encfs">>, probe[1].progress,
                                         probe[1].version))])
    /\ UNCHANGED <<tmpDict, files, polkit, last, authSaved, wr, wait, execVars>>

NextRsync == callRsyncPrefix

SpecRsync == InitRsync /\ [][NextRsync]_vars

---------------------------------------------------------------------------
(* tools.splitCommands: a generator.  A string is the sequence of its       *)
(* characters.  One step is one next() of the consumer: the generator runs  *)
(* to its next yield or to its end.                                         *)

\* the inner while loop: elements are popped from cmds and added to s while
\* the command with the next element and tail is not longer than maxLength
RECURSIVE fill(_, _, _, _, _)
fill(s, cmds, tail, maxLength, taken) ==
    IF cmds # <<>> /\ (Len(s \o cmds[1] \o tail) <= maxLength \/ maxLength <= 0)
    THEN fill(s \o cmds[1], Tail(cmds), tail, maxLength, Append(taken, cmds[1]))
    ELSE [s |-> s, cmds |-> cmds, taken |-> taken]

\* the arguments of the call
SplitElements == {<<"a">>, <<"b", "b">>, <<"c", "c", "c", "c">>}
SplitCmds == UNION {[1..n -> SplitElements] : n \in 0..MaxCmds}

InitSplit ==
    /\ tmpDict = [o \in {} |-> <<>>]
    /\ files = [u \in Users |-> NoFile]
    /\ polkit = None
    /\ last = NoCall
    /\ authSaved = [u \in Users |-> None]
    /\ wr = None
    /\ probe \in {Some([args |-> c, cmds |-> c, head |-> h, tail |-> t, maxLength |-> m,
                        yielded |-> <<>>, done |-> FALSE]) :
                    c \in SplitCmds, h \in {<<>>, <<"h">>}, t \in {<<>>, <<"t">>},
                    m \in {0, 3, 4, 6}}
    /\ wait = None
    /\ NoExecute

\* next() on the generator: StopIteration when cmds is empty, else the next
\* command is built and yielded.  What was yielded, and from which elements,
\* is recorded for the first MaxYield commands.
splitNext ==
    /\ probe # None
    /\ ~probe[1].done
    /\ IF probe[1].cmds = <<>>
       THEN probe' = Some([probe[1] EXCEPT !.done = TRUE])
       ELSE LET r == fill(probe[1].head, probe[1].cmds, probe[1].tail, probe[1].maxLength, <<>>)
                y == [s |-> r.s \o probe[1].tail, taken |-> r.taken]
            IN  probe' = Some([probe[1] EXCEPT
                                 !.cmds = r.cmds,
                                 !.yielded = IF Len(@) < MaxYield THEN Append(@, y) ELSE @])
    /\ UNCHANGED <<tmpDict, files, polkit, last, authSaved, wr, wait, execVars>>

NextSplit == splitNext

\* for cmd in splitCommands(...): the consumer keeps asking
SpecSplit == InitSplit /\ [][NextSplit]_vars /\ WF_vars(splitNext)

---------------------------------------------------------------------------
(* Properties of the broker *)

\* the last element of a non-empty sequence
Final(q) == q[Len(q)]

\* the staged list of the owner differs from the rule file of its user
Differs(sender) ==
    /\ get(tmpDict, nameOwner(sender)) # <<>>
    /\ ~(exists(files, connectionUnixUser(sender))
         /\ tmpDict[nameOwner(sender)] = readlines(files[connectionUnixUser(sender)][1]))

\* the command a rule line runs through su: what stands between -c ' and the
\* closing quotes of the line
EmbeddedCmd(r) ==
    LET i == CHOOSE k \in 1..Len(r) : r[k] = "' -c '"
    IN  SubSeq(r, i + 1, Len(r) - 3)

StagedRules == UNION {{tmpDict[o][i] : i \in 1..Len(tmpDict[o])} : o \in DOMAIN tmpDict}

\* C1: a rule file gets new contents only in a save call in which the oracle
\* approved the save privilege, and disappears only in a delete call, or a
\* save call with nothing staged, in which the oracle approved the delete
\* privilege; the approval is a query of that very call.
C1_WriteOnlyAfterApproval ==
    [][\A u \in Users :
         /\ (files'[u] # files[u] /\ files'[u] # NoFile) =>
               /\ last'.op = "save"
               /\ connectionUnixUser(last'.sender) = u
               /\ Approved(last'.asked) = UdevRuleSave
         /\ (files'[u] # files[u] /\ files'[u] = NoFile) =>
               /\ last'.op \in {"save", "delete"}
               /\ last'.op = "save" => get(tmpDict, nameOwner(last'.sender)) = <<>>
               /\ connectionUnixUser(last'.sender) = u
               /\ Approved(last'.asked) = UdevRuleDelete]_vars

C1_Witness ==
    /\ last.op = "save"
    /\ last.result = "True"
    /\ Approved(last.asked) = UdevRuleSave
    /\ files[connectionUnixUser(last.sender)] # NoFile

\* C2: a save of staged rules that differ from the rule file, which the oracle
\* denies, fails with PermissionDeniedByPolicy and leaves the staged lists and
\* the rule files as they were.
C2_DeniedSavePreserves ==
    [][(/\ last'.op = "save"
        /\ Differs(last'.sender)
        /\ last'.asked # <<>> /\ Final(last'.asked)[2] = "no") =>
             /\ last'.result = "PermissionDeniedByPolicy"
             /\ tmpDict' = tmpDict
             /\ files' = files]_vars

C2_Witness ==
    /\ last.op = "save"
    /\ last.result = "PermissionDeniedByPolicy"
    /\ Approved(last.asked) = "" /\ last.asked # <<>>
    /\ get(tmpDict, nameOwner(last.sender)) # <<>>

\* C3: while save writes a rule file, the file holds at every instant, for
\* whoever reads it then, the whole previous state (its text, or no file) or
\* the whole new text, never an empty or partly written one.
C3_AtomicWrite ==
    wr # None =>
        files[connectionUnixUser(wr[1].sender)]
            \in {wr[1].prev, File(writelines(tmpDict[nameOwner(wr[1].sender)]))}

\* C4: a rule file that is present holds exactly the rule list of the latest
\* authorized save of its user.
C4_FileIsLastAuthorizedSave ==
    \A u \in Users : files[u] # NoFile => authSaved[u] = Some(readlines(files[u][1]))

C4_Witness ==
    \E u \in Users, o \in DOMAIN tmpDict :
        /\ connectionUnixUser(o) = u
        /\ files[u] # NoFile
        /\ last.op = "save" /\ last.result = "PermissionDeniedByPolicy"
        /\ tmpDict[o] # readlines(files[u][1])

\* C5: after a save that returns True, the lines read from the rule file are
\* the list that was staged, in its order; and a save of a staged list that is
\* the list of the latest authorized save, the file being there, returns False
\* without a query and without touching the file.
C5_RoundTrip ==
    [][/\ (last'.op = "save" /\ last'.result = "True") =>
             /\ files'[connectionUnixUser(last'.sender)] # NoFile
             /\ readlines(files'[connectionUnixUser(last'.sender)][1])
                    = get(tmpDict, nameOwner(last'.sender))
       /\ (/\ last'.op = "save"
           /\ files[connectionUnixUser(last'.sender)] # NoFile
           /\ authSaved[connectionUnixUser(last'.sender)]
                  = Some(get(tmpDict, nameOwner(last'.sender)))) =>
             /\ last'.result = "False"
             /\ last'.asked = <<>>
             /\ files' = files]_vars

C5_Witness ==
    /\ last.op = "save" /\ last.result = "False" /\ last.asked = <<>>
    /\ files[alice] # NoFile
    /\ Len(readlines(files[alice][1])) = 2
    /\ readlines(files[alice][1])[1] # readlines(files[alice][1])[2]

\* C6: every owner has at most max_rules staged rules, at most max_users
\* owners are staged, and the command of every staged rule has at most
\* max_cmd_len characters.
C6_Quotas ==
    /\ \A o \in DOMAIN tmpDict : Len(tmpDict[o]) <= max_rules
    /\ Cardinality(DOMAIN tmpDict) <= max_users
    /\ \A r \in StagedRules : Len(EmbeddedCmd(r)) <= max_cmd_len

C6_Witness ==
    /\ Cardinality(DOMAIN tmpDict) = max_users
    /\ \E o \in DOMAIN tmpDict : Len(tmpDict[o]) = max_rules
    /\ last.op = "addRule" /\ last.result = "LimitExceeded"

\* C7: an owner that is staged, or that arrives while fewer than max_users
\* owners are staged, gets every valid addRule accepted while it has fewer
\* than max_rules rules staged; with max_rules staged the call fails with
\* LimitExceeded and the staged rules stay.
C7_QuotaBoundary ==
    [][\A sender \in Senders, cmd \in Cmds, uuid \in Uuids :
         (/\ addRule(sender, cmd, uuid)
          /\ validate(cmd, uuid) = "ok" /\ Len(cmd) <= max_cmd_len
          /\ (nameOwner(sender) \in DOMAIN tmpDict
                 \/ Cardinality(DOMAIN tmpDict) < max_users)) =>
             IF Len(get(tmpDict, nameOwner(sender))) < max_rules
             THEN last'.result = Returned
             ELSE last'.result = "LimitExceeded" /\ tmpDict' = tmpDict]_vars

\* C8: an addRule call that fails with InvalidChar, InvalidCmd or
\* LimitExceeded leaves every staged list and every rule file as it was.
C8_RejectedAddRuleMutatesNothing ==
    [][(last'.op = "addRule" /\ last'.result \in {"InvalidChar", "InvalidCmd", "LimitExceeded"})
          => (tmpDict' = tmpDict /\ files' = files)]_vars

C8_Witness ==
    /\ last.op = "addRule"
    /\ last.result = "LimitExceeded"
    /\ Len(get(tmpDict, nameOwner(last.sender))) = max_rules
    /\ \E u \in Users : files[u] # NoFile

\* C9: the validations of one (command, device id) pair, made in whatever
\* states of the staged map, all give one verdict; a command that contains
\* '&&' is never accepted, nor is one that does not start with '/'.
C9_ValidationDeterministic ==
    probe # None =>
        /\ Cardinality(probe[1].verdicts) <= 1
        /\ ContainsAndAnd(probe[1].cmd) => "accept" \notin probe[1].verdicts
        /\ ~startswith(probe[1].cmd, "/") => "accept" \notin probe[1].verdicts

C9_Witness ==
    /\ probe # None
    /\ probe[1].verdicts = {"accept"}
    /\ last.op = "addRule" /\ last.cmd = probe[1].cmd /\ last.uuid = probe[1].uuid
    /\ last.result = "LimitExceeded"
    /\ Len(get(tmpDict, nameOwner(last.sender))) = max_rules

\* an '&' that is neither part of '&&' nor the target mark of a redirection
\* such as 2>&1: the shell runs what follows it as another command
HasLoneAmpersand(cmd) ==
    \E i \in 1..Len(cmd) :
        /\ cmd[i] = "&"
        /\ (i = 1 \/ cmd[i-1] \notin {"&", ">"})
        /\ (i = Len(cmd) \/ cmd[i+1] # "&")

\* C10: the command of every staged rule holds no '&&' and no lone '&', so
\* that nothing after the backintime entry point starts another program.
C10_SingleProgram ==
    \A r \in StagedRules :
        ~ContainsAndAnd(EmbeddedCmd(r)) /\ ~HasLoneAmpersand(EmbeddedCmd(r))

\* C11: addRule fails with InvalidChar exactly when the command holds a
\* character outside letters, digits, '-', '/', '.', '>', '&' and blank, or the
\* device id one outside letters, digits and '-'; the error names the offending
\* characters (those of the command, or of the device id when the command is
\* clean); a command that also fails the whitelist, or a caller that is also
\* over its limits, still gets InvalidChar.
C11_InvalidChar ==
    last.op = "addRule" =>
        LET badCmd == {last.cmd[i] : i \in 1..Len(last.cmd)} \ CmdChars
            badUuid == {last.uuid[i] : i \in 1..Len(last.uuid)} \ UuidChars
        IN  /\ last.result = "InvalidChar" <=> (badCmd # {} \/ badUuid # {})
            /\ last.result = "InvalidChar" =>
                   last.chars = IF badCmd # {} THEN badCmd ELSE badUuid
            /\ last.result # "InvalidChar" => last.chars = {}

C11_Witness ==
    /\ last.op = "addRule" /\ last.result = "InvalidChar"
    /\ last.chars = {"'", ";"}
    /\ _validateCmd(last.cmd) = "InvalidCmd"
    /\ Len(get(tmpDict, nameOwner(last.sender))) = max_rules

\* C12: a save by an owner with nothing staged, when its user has no rule
\* file, returns False, asks the oracle nothing and leaves no file behind.
C12_SaveNothingStagedNoFile ==
    [][(/\ last'.op = "save"
        /\ get(tmpDict, nameOwner(last'.sender)) = <<>>
        /\ files[connectionUnixUser(last'.sender)] = NoFile) =>
             /\ last'.result = "False"
             /\ last'.asked = <<>>
             /\ files' = files]_vars

C12_Witness ==
    /\ last.op = "save" /\ last.result = "False" /\ last.asked = <<>>
    /\ files[connectionUnixUser(last.sender)] = NoFile
    /\ nameOwner(last.sender) \notin DOMAIN tmpDict
    /\ \E o \in DOMAIN tmpDict : connectionUnixUser(o) = connectionUnixUser(last.sender)

\* C13: a save by an owner whose staged list, written out, is the text of the
\* rule file of its user drops the owner's staged list, returns False, asks
\* the oracle nothing and leaves the files as they are.
C13_SaveIdentical ==
    [][(/\ last'.op = "save"
        /\ get(tmpDict, nameOwner(last'.sender)) # <<>>
        /\ files[connectionUnixUser(last'.sender)]
               = File(writelines(get(tmpDict, nameOwner(last'.sender))))) =>
             /\ nameOwner(last'.sender) \notin DOMAIN tmpDict'
             /\ last'.result = "False"
             /\ last'.asked = <<>>
             /\ files' = files]_vars

C13_Witness ==
    /\ last.op = "save" /\ last.result = "False" /\ last.asked = <<>>
    /\ files[connectionUnixUser(last.sender)] # NoFile
    /\ nameOwner(last.sender) \notin DOMAIN tmpDict

\* the save call of this step replaced the rule file of the caller's user by
\* the caller's staged rules
SaveReplacedFile ==
    LET u == connectionUnixUser(last'.sender)
        staged == get(tmpDict, nameOwner(last'.sender))
    IN  /\ staged # <<>>
        /\ files'[u] # files[u]
        /\ files'[u] = File(writelines(staged))

\* C14: save returns True exactly when the call replaced the rule file by the
\* staged rules, and whenever save returns False the rule file of the caller's
\* user is after the call what it was before.
C14_SaveResultReportsChange ==
    [][last'.op = "save" =>
         /\ last'.result = "True" <=> SaveReplacedFile
         /\ last'.result = "False" =>
                files'[connectionUnixUser(last'.sender)]
                    = files[connectionUnixUser(last'.sender)]]_vars

\* C14 as amended: save returns True exactly when the call replaced the rule
\* file by the staged rules; when save returns False the rule file of the
\* caller's user is what it was before, unless the owner had nothing staged
\* and the file was there: then save acted as delete, the oracle approved the
\* delete privilege and the file is gone.
C14_SaveResultAmended ==
    [][last'.op = "save" =>
         LET u == connectionUnixUser(last'.sender) IN
         /\ last'.result = "True" <=> SaveReplacedFile
         /\ last'.result = "False" =>
                \/ files'[u] = files[u]
                \/ /\ get(tmpDict, nameOwner(last'.sender)) = <<>>
                   /\ files[u] # NoFile
                   /\ files'[u] = NoFile
                   /\ Approved(last'.asked) = UdevRuleDelete]_vars

C14_Witness ==
    /\ last.op = "save" /\ last.result = "False"
    /\ Approved(last.asked) = UdevRuleDelete
    /\ files[connectionUnixUser(last.sender)] = NoFile

\* C15: when a save of an owner has returned and the next call handled is a
\* save of the same owner, that second save returns False, whatever the oracle
\* answers.
C15_SaveIdempotent ==
    [][(/\ last.op = "save" /\ last.result \in {"True", "False"}
        /\ last'.op = "save" /\ last'.sender = last.sender) =>
             last'.result = "False"]_vars

\* the staged lists of all owners but the caller of this step stay
OthersKeepStaged ==
    \A o \in DOMAIN tmpDict \ {nameOwner(last'.sender)} :
        o \in DOMAIN tmpDict' /\ tmpDict'[o] = tmpDict[o]

\* C16: delete always drops the caller's staged list and no other; without a
\* rule file of the caller's user it asks the oracle nothing, returns and
\* changes nothing else; with one it asks for the delete privilege only, and
\* on approval the file is removed, on denial the file stays and the call
\* fails with PermissionDeniedByPolicy.
C16_Delete ==
    [][last'.op = "delete" =>
         LET u == connectionUnixUser(last'.sender) IN
         /\ DOMAIN tmpDict' = DOMAIN tmpDict \ {nameOwner(last'.sender)}
         /\ OthersKeepStaged
         /\ \A v \in Users \ {u} : files'[v] = files[v]
         /\ files[u] = NoFile =>
                /\ last'.asked = <<>>
                /\ last'.result = Returned
                /\ files' = files /\ polkit' = polkit
         /\ files[u] # NoFile =>
                /\ last'.asked # <<>>
                /\ \A i \in 1..Len(last'.asked) : last'.asked[i][1] = UdevRuleDelete
                /\ Final(last'.asked)[2] = "yes" =>
                       files'[u] = NoFile /\ last'.result = Returned
                /\ Final(last'.asked)[2] = "no" =>
                       files'[u] = files[u] /\ last'.result = "PermissionDeniedByPolicy"]_vars

C16_Witness ==
    /\ last.op = "delete" /\ last.result = "PermissionDeniedByPolicy"
    /\ files[connectionUnixUser(last.sender)] # NoFile
    /\ nameOwner(last.sender) \notin DOMAIN tmpDict
    /\ tmpDict # <<>>

\* C17: addRule and clean leave every rule file as it is and ask the oracle
\* nothing; addRule appends one rule to the caller's staged list or changes
\* nothing, clean removes the caller's staged entry and nothing else.
C17_StagingOnly ==
    [][last'.op \in {"addRule", "clean"} =>
         LET owner == nameOwner(last'.sender) IN
         /\ files' = files
         /\ last'.asked = <<>>
         /\ polkit' = polkit
         /\ OthersKeepStaged
         /\ last'.op = "addRule" =>
                \/ tmpDict' = tmpDict
                \/ /\ DOMAIN tmpDict' = DOMAIN tmpDict \cup {owner}
                   /\ Len(tmpDict'[owner]) = Len(get(tmpDict, owner)) + 1
                   /\ SubSeq(tmpDict'[owner], 1, Len(get(tmpDict, owner))) = get(tmpDict, owner)
         /\ last'.op = "clean" => DOMAIN tmpDict' = DOMAIN tmpDict \ {owner}]_vars

C17_Witness ==
    /\ last.op = "clean"
    /\ files[connectionUnixUser(last.sender)] # NoFile
    /\ \E o \in DOMAIN tmpDict : Len(tmpDict[o]) = max_rules

\* C18: a call of one owner changes the staged list of no other owner, two
\* connections of one user included.
C18_OwnerIsolation ==
    [][last'.op # "none" => OthersKeepStaged]_vars

C18_Witness ==
    /\ last.op = "save" /\ last.result = "True"
    /\ \E o \in DOMAIN tmpDict :
          /\ o # nameOwner(last.sender)
          /\ connectionUnixUser(o) = connectionUnixUser(last.sender)

\* C19: while the save or delete of one owner waits for the oracle, the main
\* loop can handle a call (addRule, clean, save, delete) of a different owner.
C19_WaitDoesNotBlockOthers ==
    wait # None =>
        \A s \in WaitSenders :
            nameOwner(s) # nameOwner(wait[1].sender) =>
                /\ ENABLED addRule(s, CmdBackup, UuidOk)
                /\ ENABLED clean(s)
                /\ ENABLED (save(s, <<"yes">>) \/ checkAuthorization("save", s))
                /\ ENABLED (delete(s, <<"yes">>) \/ checkAuthorization("delete", s))

\* the answers of the oracle in a list of queries
AnswersOf(asked) == [i \in 1..Len(asked) |-> asked[i][2]]

\* C20: calls never interleave: while a call is in progress the only step is
\* its own completion, and the staged map and the rule files it leaves are
\* those of handling the whole call in the state in which it began; so two
\* calls of one owner take effect one after the other.
C20_Serialized ==
    [][wait # None =>
         /\ wait' = None
         /\ last'.op = wait[1].op /\ last'.sender = wait[1].sender
         /\ LET r == Handler(wait[1].op, wait[1].tmpDict, wait[1].files, polkit,
                             wait[1].sender, AnswersOf(last'.asked))
            IN  tmpDict' = r.tmpDict /\ files' = r.files /\ last'.result = r.result]_vars

C20_Witness ==
    /\ wait = None
    /\ last.op = "save" /\ last.result = "True" /\ last.asked # <<>>
    /\ files[connectionUnixUser(last.sender)] # NoFile
    /\ Len(readlines(files[connectionUnixUser(last.sender)][1])) = max_rules

FourErrors == {"InvalidChar", "InvalidCmd", "LimitExceeded", "PermissionDeniedByPolicy"}

\* the call handled last ended with an exception
Failed == last.result \notin {"none", Returned, "True", "False"}

\* C22: a call that fails reports one of the four named errors, the one of
\* its cause: InvalidChar for a character outside the classes, InvalidCmd for
\* a command the whitelist check refuses, LimitExceeded for a quota,
\* PermissionDeniedByPolicy for a refusal of the oracle; and the client of
\* SetupUdev gets the error of an addRule or a save under that same name.
C22_NamedErrors ==
    Failed =>
        /\ last.result \in FourErrors
        /\ last.result = "InvalidChar" => last.chars # {}
        /\ last.result = "InvalidCmd" => last.chars = {} /\ _validateCmd(last.cmd) # "ok"
        /\ last.result = "LimitExceeded" => last.op = "addRule" /\ validate(last.cmd, last.uuid) = "ok"
        /\ last.result = "PermissionDeniedByPolicy" =>
               last.asked # <<>> /\ Final(last.asked)[2] = "no"
        /\ last.op \in {"addRule", "save"} => SetupUdev(last.op, last.result) = last.result

\* the udev rule line that matches device id d and runs command c through
\* /bin/su as the given user
RuleLine(d, user, c) ==
    <<"ACTION==\"add|change\", ENV{ID_FS_UUID}==\"">> \o d \o <<"\", RUN+=\"">>
        \o <<"/","b","i","n","/","s","u">> \o <<" - '">> \o user \o <<"' -c '">> \o c
        \o <<"'", "\"", NL>>

\* C23: when an owner with nothing staged has added one rule (c, d) and then
\* calls save, the oracle approving where it is asked, the rule file of the
\* owner's user is exactly the one line that matches d and runs c through su
\* as that user, and nothing of the owner stays staged.
C23_AddRuleThenSave ==
    [][(/\ last.op = "addRule" /\ last.result = Returned
        /\ Len(get(tmpDict, nameOwner(last.sender))) = 1
        /\ last'.op = "save" /\ last'.sender = last.sender
        /\ (last'.asked = <<>> \/ Final(last'.asked)[2] = "yes")) =>
             /\ files'[connectionUnixUser(last.sender)]
                    = File(RuleLine(last.uuid, connectionUnixUser(last.sender), last.cmd))
             /\ nameOwner(last.sender) \notin DOMAIN tmpDict']_vars

C23_Witness ==
    /\ last.op = "save" /\ last.result = "True"
    /\ Approved(last.asked) = UdevRuleSave
    /\ files[connectionUnixUser(last.sender)]
           = File(RuleLine(UuidOk, connectionUnixUser(last.sender), CmdNiced))
    /\ nameOwner(last.sender) \notin DOMAIN tmpDict

---------------------------------------------------------------------------
(* Properties of the process controller *)

\* C24: on every way out of run(), return or exception, the three signals
\* have their default handling again.
C24_HandlersRestored ==
    pc \in {"returned", "raised"} => handlers = Default

\* C25: when a signal arrives for which run() has installed its method, and a
\* child lives under a controller with pausable true, SIGTSTP leaves the child
\* stopped, SIGCONT leaves it running, SIGHUP leaves it killed; with pausable
\* false, or with no child spawned yet, the signal changes nothing of a child.
C25_SignalForwarding ==
    [][\A sig \in Signals :
         signalArrives(sig) =>
             IF self[1].pausable /\ child.state \in {"running", "stopped"}
             THEN CASE sig = "SIGTSTP" -> child'.state = "stopped"
                    [] sig = "SIGCONT" -> child'.state = "running"
                    [] sig = "SIGHUP" -> child'.state = "exited" /\ child'.code = -9
             ELSE (~self[1].pausable \/ child.state = "none") => child' = child]_vars

C25_Witness ==
    /\ pc = "streaming"
    /\ child.state = "stopped"
    /\ child.todo # <<>>
    /\ self[1].pausable

\* C26: a child that is left to run is read to the end of its output, however
\* its output compares with the room in the pipe, with a callback or without:
\* once the child is started, run() returns.
C26_NoPipeDeadlock ==
    (pc \in {"streaming", "communicate"}) ~> (pc = "returned")

C26_Witness ==
    /\ pc = "communicate"
    /\ self[1].callback = "None"
    /\ Len(pipe) = PipeCap
    /\ child.state = "running" /\ child.todo # <<>>

\* a line through the filters, first to last
RECURSIVE Through(_, _, _)
Through(filters, i, line) ==
    IF i > Len(filters) THEN line ELSE Through(filters, i + 1, filterResult(filters[i], line))

\* the calls due for a list of lines read: one per line that the filters
\* leave non-empty, in the order of the lines, with the caller's user_data
RECURSIVE CallsDue(_, _, _)
CallsDue(filters, data, lines) ==
    IF lines = <<>> THEN <<>>
    ELSE LET raw == Head(lines)
             line == Through(filters, 1, decode(SubSeq(raw, 1, Len(raw) - 1)))
         IN  (IF line = <<>> THEN <<>> ELSE << <<line, data>> >>)
                 \o CallsDue(filters, data, Tail(lines))

\* C27: as long as nothing has raised, the calls of the callback are, for the
\* lines read so far in the order the child wrote them, one call per line
\* that is non-empty after the filters in their order, with user_data; a line
\* the filters leave empty gets no call.
C27_FilteredLinesDelivered ==
    (self # None /\ pc \in {"streaming", "communicate", "returned"}) =>
        IF self[1].callback = "None" THEN delivered = <<>>
        ELSE delivered = CallsDue(self[1].filters, "user_data",
                                  SubSeq(child.written, 1, Len(child.written) - Len(pipe)))

C27_Witness ==
    /\ pc = "returned"
    /\ self[1].filters = <<"dropB", "AtoB">>
    /\ child.written = << <<98, 10>>, <<97, 10>> >>
    /\ delivered = << << <<"b">>, "user_data" >> >>

\* one sequence begins the other
IsPrefix(a, b) == Len(a) <= Len(b) /\ SubSeq(b, 1, Len(a)) = a

C29_ListOnly ==
    /\ pc = "RuntimeError" => self = None /\ child = NoChild
    /\ self # None => self[1].cmd.type = "list"
    /\ child.state # "none" => self # None

C29_Witness ==
    pc = "RuntimeError"

\* C30: when the handlers cannot be installed, run() goes on to spawn the
\* child; it ends by raising only where it would with handlers (Popen fails,
\* a filter or the callback raises), returns the child's exit code otherwise,
\* and no signal is forwarded to the child.
C30_InstallFailureTolerated ==
    [][thread' = "other" =>
         /\ pc = "ready" => pc' = "installed"
         /\ handlers' = Default
         /\ child'.state # "stopped" /\ child'.code # -9
         /\ (pc' = "raised" /\ pc # "raised") => pc \in {"installed", "streaming"}
         /\ pc' = "returned" => ret_val' = child'.code]_vars

C30_Witness ==
    /\ thread = "other"
    /\ pc = "returned"
    /\ ret_val = 23
    /\ delivered # <<>>

\* a stop, a continue or a kill has reached the child between two states
Signalled(a, b) ==
    \/ (a.state = "stopped") # (b.state = "stopped")
    \/ a.code # -9 /\ b.code = -9

\* C31: two controllers run at the same time in one process: a signal that one
\* forwards reaches its own child only, and when the run of one ends, a
\* controller that is still running in the main thread keeps its three methods
\* installed.
C31_IndependentControllers ==
    [][/\ Signalled(child, child') =>
            /\ \E sig \in Signals : handlers[sig] = Installed[sig]
            /\ second'.child = second.child
       /\ Signalled(second.child, second'.child) =>
            /\ \E sig \in Signals : handlers[sig] = Installed2[sig]
            /\ child' = child
       /\ (second.pc # "returned" /\ second'.pc = "returned"
             /\ thread = "main" /\ pc \in {"streaming", "communicate"})
          => handlers' = Installed
       /\ (pc # "returned" /\ pc' = "returned"
             /\ second.thread = "main" /\ second.pc \in {"installed", "running"})
          => handlers' = Installed2]_vars

\* C32: SIGHUP delivered while the child runs or is stopped and pausable is
\* true kills the child; the loop over its output ends and run() returns.
C32_HangupReleases ==
    /\ [][(/\ signalArrives("SIGHUP")
           /\ self[1].pausable
           /\ child.state \in {"running", "stopped"})
          => child'.state = "exited" /\ child'.code = -9 /\ child'.todo = <<>>]_vars
    /\ (child.code = -9) ~> (pc = "returned" /\ ret_val = -9)

\* the child was killed after the callback got a line, and run() has returned
C32_Witness ==
    /\ pc = "returned"
    /\ child.code = -9
    /\ self[1].callback # "None"
    /\ delivered # <<>>

---------------------------------------------------------------------------
(* Properties of the command synthesizer *)

\* the call of rsyncPrefix under check has returned a vector
Built == probe # None /\ probe[1].result # None /\ probe[1].result[1].raised = Returned

\* the groups of arguments, by what an argument is
PermissionArgs == {"--acls", "--xattrs", "--no-perms", "--no-group", "--no-owner",
                   "--perms", "--executability", "--group", "--owner"}
OptionArgs == {"--info=progress2", "--no-inc-recursive", "--bwlimit=100",
               "--compress", "--delete-excluded"}
BehaviourArgs == {"nocache", "rsync", "--recursive", "--times", "--devices", "--specials",
                  "--hard-links", "--human-readable", "-s", "--checksum",
                  "--copy-unsafe-links", "--copy-links", "--links", "--one-file-system"}
ShellArgs == {"--rsh=ssh -p 22",
              "--rsync-path=nice -n 19 rsync", "--rsync-path=ionice -c2 -n7 rsync",
              "--rsync-path=nocache rsync", "--rsync-path=nice -n 19 ionice -c2 -n7 rsync",
              "--rsync-path=nice -n 19 nocache rsync", "--rsync-path=ionice -c2 -n7 nocache rsync",
              "--rsync-path=nice -n 19 ionice -c2 -n7 nocache rsync"}
Rank(arg) ==
    IF arg \in BehaviourArgs THEN 1
    ELSE IF arg \in PermissionArgs THEN 2
    ELSE IF arg \in OptionArgs THEN 3
    ELSE IF arg \in ShellArgs THEN 4
    ELSE 0

\* C33: in the vector rsyncPrefix returns, the behaviour flags come before the
\* permission flags, these before the progress, bandwidth and custom
\* arguments, and --rsh and --rsync-path come last.
C33_FlagOrder ==
    Built =>
        LET cmd == probe[1].result[1].cmd IN
        /\ \A i \in 1..Len(cmd) : Rank(cmd[i]) \in 1..4
        /\ \A i, j \in 1..Len(cmd) : i < j => Rank(cmd[i]) <= Rank(cmd[j])

\* a vector with arguments of all four groups
C33_Witness ==
    /\ Built
    /\ \A r \in 1..4 : \E i \in 1..Len(probe[1].result[1].cmd) : Rank(probe[1].result[1].cmd[i]) = r
    /\ Len(probe[1].result[1].cmd) >= 24

\* every argument of the group is in the vector
HasAll(cmd, group) == \A g \in group : \E i \in 1..Len(cmd) : cmd[i] = g
\* no argument of the group is in the vector
HasNone(cmd, group) == \A g \in group : \A i \in 1..Len(cmd) : cmd[i] # g

NoPermsGroup == {"--no-perms", "--no-group", "--no-owner"}
PermsGroup == {"--perms", "--executability", "--group", "--owner"}

\* C34: the vector holds exactly one of the two permission groups, and a
\* configuration that asks for ACLs or extended attributes never gets the
\* no-permissions group, whatever no_perms the caller passed.
C34_PermissionGroups ==
    Built =>
        LET cmd == probe[1].result[1].cmd
            config == probe[1].config
        IN  /\ \/ HasAll(cmd, NoPermsGroup) /\ HasNone(cmd, PermsGroup)
               \/ HasAll(cmd, PermsGroup) /\ HasNone(cmd, NoPermsGroup)
            /\ (config.preserveAcl \/ config.preserveXattr) => HasNone(cmd, NoPermsGroup)

\* the probe of rsync did not come to a capability: it could not be run, or
\* its output is not what rsync prints
ProbeFailed ==
    /\ probe # None
    /\ \/ probe[1].version.raised
       \/ probe[1].version.data \in {VersionOther, VersionEmpty}

\* the flags every vector holds
ConservativeArgs == {"rsync", "--recursive", "--times", "--devices", "--specials",
                     "--hard-links", "--human-readable", "-s"}

\* C35: when the probe of rsync fails or its output matches nothing,
\* rsyncPrefix raises nothing: it returns a vector, built with no capability,
\* that holds the conservative flags and none that needs a capability.
C35_ProbeFailureTolerated ==
    (ProbeFailed /\ probe[1].result # None) =>
        LET r == probe[1].result[1] IN
        /\ r.raised = Returned
        /\ r.caps = <<>>
        /\ HasAll(r.cmd, ConservativeArgs)
        /\ HasNone(r.cmd, {"--acls", "--xattrs", "--info=progress2", "--no-inc-recursive"})

---------------------------------------------------------------------------
(* Properties of the broker, continued *)

\* tok is a switch that may follow prog: -n... for nice, -c... or -n... for ionice
IsSwitchOf(prog, tok) ==
    IF prog = nice THEN HasPrefix(tok, <<"-","n">>)
    ELSE HasPrefix(tok, <<"-","c">>) \/ HasPrefix(tok, <<"-","n">>)

\* the token at place k belongs to the leading nice/ionice prefix: it is nice
\* or ionice, or a switch of the nice or ionice that switches only separate
\* it from, and everything before belongs to the prefix too
RECURSIVE InPrefix(_, _)
InPrefix(parts, k) ==
    \E p \in 1..k :
        /\ parts[p] \in {nice, ionice}
        /\ \A m \in (p+1)..k : IsSwitchOf(parts[p], parts[m])
        /\ p = 1 \/ InPrefix(parts, p - 1)

\* the tokens that remain when the prefix is removed
AfterPrefix(parts) ==
    SubSeq(parts, Cardinality({k \in 1..Len(parts) : InPrefix(parts, k)}) + 1, Len(parts))

\* C36: a command that addRule accepts has, behind its nice/ionice prefix, a
\* first token, and this token is the path of backintime; a command (of valid
\* characters) whose prefix is followed by another token or by nothing is
\* rejected with InvalidCmd.
C36_EntryPointAfterPrefix ==
    last.op = "addRule" =>
        LET rest == AfterPrefix(split(last.cmd)) IN
        /\ last.result = Returned => rest # <<>> /\ rest[1] = backintime
        /\ (last.result # "InvalidChar" /\ (rest = <<>> \/ rest[1] # backintime))
              => last.result = "InvalidCmd"

\* addRule has accepted the command with the prefix of nice and ionice
C36_Witness ==
    /\ last.op = "addRule"
    /\ last.cmd = CmdNiced
    /\ last.result = Returned
    /\ Len(AfterPrefix(split(last.cmd))) < Len(split(last.cmd))

---------------------------------------------------------------------------
(* Properties of the process controller, continued *)

\* C37: the child terminates once: nothing changes a child that has exited, no
\* stop, continue or kill reaches it (neither between its exit and the reset
\* of the handlers nor after a run that ended with an exception), and when
\* run() has returned the controller holds no current process.
C37_Lifecycle ==
    [][/\ child.state = "exited" => child' = child
       /\ pc' = "returned" => self'[1].currentProc = None]_vars

---------------------------------------------------------------------------
(* Properties of the broker: the rule file of a user *)

\* the rule line runs its command through su as user u: behind RUN+=" stand
\* the path of su, - 'u' -c ', the command, and the closing quotes
RunsThroughSuAs(line, u) ==
    LET head == su \o <<" - '">> \o u \o <<"' -c '">> IN
    \E i \in 1..Len(line) :
        /\ line[i] = "\", RUN+=\""
        /\ Len(line) >= i + Len(head) + 3
        /\ SubSeq(line, i + 1, i + Len(head)) = head
        /\ SubSeq(line, Len(line) - 2, Len(line)) = <<"'", "\"", NL>>
        /\ \A k \in (i + Len(head) + 1)..(Len(line) - 3) : line[k] \in CmdChars

\* C38: the rule file of user u is created, replaced or removed only by a save
\* or delete call whose caller is u, and every line it ever holds runs its
\* command through su as u.
C38_FileOfUser ==
    /\ [][\A u \in Users : files'[u] # files[u] =>
            /\ last'.op \in {"save", "delete"}
            /\ connectionUnixUser(last'.sender) = u]_vars
    /\ [](\A u \in Users : files[u] # NoFile =>
            LET lines == readlines(files[u][1]) IN
            \A i \in 1..Len(lines) : RunsThroughSuAs(lines[i], u))

\* both users have a rule file
C38_Witness == \A u \in Users : files[u] # NoFile /\ readlines(files[u][1]) # <<>>

\* C39: a save or delete call that asks the oracle comes to its end, also when
\* the oracle answers ServiceUnknown to every query.
C39_CheckTerminates == (wait # None) ~> (wait = None)

\* the oracle was unknown at every query until the call failed
C39_Witness ==
    /\ wait = None
    /\ last.op \in {"save", "delete"}
    /\ last.result = "RecursionError"

\* the elements of the commands yielded, one after the other
RECURSIVE Taken(_)
Taken(yielded) ==
    IF yielded = <<>> THEN <<>> ELSE Head(yielded).taken \o Taken(Tail(yielded))

\* C40: splitCommands terminates, the commands it yielded hold every element
\* of cmds once and in order, and with maxLength > 0 every command yielded is
\* shorter than maxLength.
C40_SplitCommands ==
    /\ <>(probe # None /\ probe[1].done)
    /\ []((probe # None /\ probe[1].done) => Taken(probe[1].yielded) = probe[1].args)
    /\ [](probe # None =>
            \A i \in 1..Len(probe[1].yielded) :
                probe[1].maxLength > 0 => Len(probe[1].yielded[i].s) < probe[1].maxLength)

====
